---- MODULE Spec2Model ----
(***************************************************************************)
(* Order lifecycle of the asphalt transport backend (orderService.js over  *)
(* orderDao.js / userDao.js / notificationDao.js on one MySQL store).      *)
(*                                                                         *)
(* Every service method is an async function: each awaited DAO query is    *)
(* one auto-committed statement (utils/db.js query -> pool.execute), so a  *)
(* request is modelled as a process that takes one step per awaited query  *)
(* that touches mutable rows.  Queries on rows nothing ever changes        *)
(* (users, the id columns of the profiles) are folded into the step next   *)
(* to them.  A store write, and the recipient lookup that follows          *)
(* the log write, may throw (store failure); the number of injected        *)
(* failures in a run is bounded by MaxFaults.                              *)
(*                                                                         *)
(* Status strings: pending = '待接单', in_transit = '运输中',               *)
(* completed = '已完成', cancelled = '已取消'; driver status               *)
(* free = '空闲中', busy = '运输中'.                                        *)
(***************************************************************************)
EXTENDS Integers, Sequences, FiniteSets, TLC

\* ------------------------------------------------------------------ bounds
MaxFaults == 1
\* Payment rows one order may collect.
MaxPayments == 2
\* Location updates that may be answered or in flight.
MaxUpdates == 3

\* Requests that may be in flight at the same time.
Calls == {"c1", "c2"}
SlotBefore(c, d) == c = "c1" /\ d = "c2"

\* ------------------------------------------------------------ seeded rows
NULL == "null"

\* users(user_id, role): three roles, ENUM('driver','owner','supervisor').
users == [uo1 |-> "owner", ud1 |-> "driver", ud2 |-> "driver", us1 |-> "supervisor"]
UserIds == DOMAIN users

\* owner_profiles(owner_id, user_id) and driver_profiles(driver_id, user_id):
\* the profile ids are uuids of their own, never equal to a user id.
owner_profiles == [o1 |-> "uo1"]
driver_profiles == [d1 |-> "ud1", d2 |-> "ud2"]
OwnerIds == DOMAIN owner_profiles
DriverIds == DOMAIN driver_profiles

\* driver_profiles.current_lat/current_lng, as km along one road; a driver whose
\* position is NULL (d2 has sent none yet) is not in the domain.
InitPos == [d1 |-> 5]
\* The pickup point of the orders created here.
StartPos == 0
\* notifyNearbyDrivers searches 20 km around the pickup point.
NearbyRadiusKm == 20

\* The order ids (uuids) of the orders that can come to exist.
OrderIds == {1, 2}

PENDING == "pending"
IN_TRANSIT == "in_transit"
COMPLETED == "completed"
CANCELLED == "cancelled"
FREE == "free"
BUSY == "busy"
NOW == "now"

NoOrder == [status |-> NULL]
NoUser == [user_id |-> NULL, role |-> NULL]
NoRow == [current_status |-> NULL]
NoRet == [op |-> NULL]
Idle == [op |-> NULL, pc |-> NULL]
NoTask == [pc |-> NULL]

VARIABLES
    orders,          \* order_id -> row of table orders, NoOrder before its insert
    driver_status,   \* driver_id -> driver_profiles.driver_status
    logs,            \* order_id -> its rows of order_status_logs, in insertion order
    notifications,   \* user_id -> its rows of notifications, in insertion order
    ratings,         \* order_id -> its rows of ratings, in insertion order
    payments,        \* order_id -> its rows of payments, in insertion order
    tracks,          \* order_id -> its rows of transport_tracks, in insertion order
    current_pos,     \* driver_id -> driver_profiles.current_lat/current_lng, no entry while NULL
    messages,        \* the rows of table messages, in insertion order
    calls,           \* request slot -> the service call in flight, with its position
    fanout,          \* order_id -> the un-awaited notifyNearbyDrivers task of its creation
    ret,             \* the response sent by the step just taken, NoRet otherwise
    faults           \* store failures injected so far

vars == <<orders, driver_status, logs, notifications, ratings, payments, tracks,
          current_pos, messages, calls, fanout, ret, faults>>

store == <<orders, driver_status, logs, notifications, ratings, payments, tracks,
           current_pos, messages>>

\* ---------------------------------------------------------------- userDao
\* SELECT * FROM users WHERE user_id = ?
findById(userId) ==
    IF userId \in UserIds THEN [user_id |-> userId, role |-> users[userId]] ELSE NoUser

\* SELECT d.* FROM driver_profiles d JOIN users u ... WHERE u.user_id = ?
getDriverProfile(userId) ==
    IF \E d \in DriverIds : driver_profiles[d] = userId
    THEN CHOOSE d \in DriverIds : driver_profiles[d] = userId
    ELSE NULL

\* SELECT o.* FROM owner_profiles o JOIN users u ... WHERE u.user_id = ?
getOwnerProfile(userId) ==
    IF \E o \in OwnerIds : owner_profiles[o] = userId
    THEN CHOOSE o \in OwnerIds : owner_profiles[o] = userId
    ELSE NULL

\* SELECT d.*, u.name ... WHERE d.driver_id = ?  (the user_id of the profile)
getDriverProfileById(driverId) ==
    IF driverId \in DriverIds THEN driver_profiles[driverId] ELSE NULL

\* ------------------------------------------------------- request plumbing
Exists(o) == o \in OrderIds /\ orders[o] # NoOrder

StatusOf(o) == IF Exists(o) THEN orders[o].status ELSE NULL

\* A write step may fail while the fault budget lasts.
FailChoices == IF faults < MaxFaults THEN BOOLEAN ELSE {FALSE}

\* A request at its first query on mutable rows.  st0 records the status its
\* order had at that moment, pre the status the order row had when the call
\* updated it, writes the tables the call has written to, row the status log
\* row it has inserted.
NewCall(op, user, order) ==
    [op |-> op, pc |-> "begin", user |-> user, order |-> order, st0 |-> StatusOf(order),
     pre |-> NULL, writes |-> {}, row |-> NoRow]

\* The response to a call: HTTP status, the message of the ApiError ("db" for
\* an error thrown by the store) and the step whose store failure ended the
\* call, with what the call was and did.
Response(call, status, msg, fault) ==
    [op |-> call.op, user |-> call.user, order |-> call.order, st0 |-> call.st0,
     pre |-> call.pre, writes |-> call.writes,
     row |-> call.row, status |-> status, msg |-> msg, fault |-> fault]

\* The call in slot c returns: the slot is free again.
Return(c, call, status, msg, fault) ==
    /\ ret' = Response(call, status, msg, fault)
    /\ calls' = [calls EXCEPT ![c] = Idle]

Goto(c, call, pc) ==
    /\ ret' = NoRet
    /\ calls' = [calls EXCEPT ![c] = [call EXCEPT !.pc = pc]]

\* A new request is taken by the first free slot, once the response of the
\* step before has gone out.
StartsIn(c) ==
    /\ ret = NoRet
    /\ calls[c] = Idle
    /\ \A d \in Calls : calls[d] = Idle => ~SlotBefore(d, c)

\* A step inside a call in flight.
Running(c, op, pcs) == ret = NoRet /\ calls[c].op = op /\ calls[c].pc \in pcs

\* res.status(...).json(...): the response leaves the server.
Respond ==
    /\ ret # NoRet
    /\ ret' = NoRet
    /\ UNCHANGED <<store, calls, fanout, faults>>

Succeeded(r) == r # NoRet /\ r.status \in {200, 201}

\* INSERT INTO order_status_logs (..., previous_status, current_status,
\* operator_id, operator_role, ...)
LogRow(previousStatus, currentStatus, operatorId, operatorRole) ==
    [previous_status |-> previousStatus, current_status |-> currentStatus,
     operator_id |-> operatorId, operator_role |-> operatorRole]

logOrderStatusChange(orderId, row) ==
    logs' = [logs EXCEPT ![orderId] = Append(@, row)]

\* uuidv4(): an id that no row of table notifications carries, written as the
\* recipient with a number above those of the rows of its inbox.
freshNotificationId(userId, inbox) ==
    IF inbox = <<>> THEN <<userId, 1>>
    ELSE <<userId, 1 + (CHOOSE m \in {inbox[i].notification_id[2] : i \in DOMAIN inbox} :
                           \A i \in DOMAIN inbox : inbox[i].notification_id[2] <= m)>>

\* A row of table notifications about an order: is_read takes the column
\* default FALSE; title and content are fixed by type and order.
NotificationRow(userId, inbox, type, orderId) ==
    [notification_id |-> freshNotificationId(userId, inbox), type |-> type, order |-> orderId,
     is_read |-> FALSE]

\* INSERT INTO notifications (notification_id, user_id, title, content, type)
createNotification(userId, type, orderId) ==
    notifications' = [notifications EXCEPT ![userId] =
                         Append(@, NotificationRow(userId, @, type, orderId))]

\* ---------------------------------------------------------------- orderDao
\* INSERT INTO orders (order_id, order_number, owner_id, ...): status takes the
\* column default '待接单', driver_id and the transition timestamps stay NULL.
NewOrderRow(ownerId) ==
    [status |-> PENDING, owner_id |-> ownerId, driver_id |-> NULL,
     accept_time |-> NULL, start_time |-> NULL, complete_time |-> NULL,
     cancel_time |-> NULL, cancel_reason |-> NULL]

\* A text of a request body: its content and its length in characters.
Text(s, len) == [s |-> s, len |-> len]

\* The request bodies of createOrder.  A weight or price counts thousandths
\* (one digit more than a DECIMAL(10,2) column keeps), a coordinate counts
\* ten-millionths (one digit more than DECIMAL(10,6) keeps).
PlainOrder ==
    [goodsType |-> Text("asphalt", 7), weight |-> 12500, price |-> 3000000,
     startAddress |-> Text("plant", 5), startLat |-> 300000000, startLng |-> 1200000000,
     endAddress |-> Text("site", 4), endLat |-> 310000000, endLng |-> -1210000000]

OrderInputs ==
    {PlainOrder,
     [PlainOrder EXCEPT !.weight = 12344],
     [PlainOrder EXCEPT !.endLng = -1210000004],
     [PlainOrder EXCEPT !.price = 0],
     [PlainOrder EXCEPT !.goodsType = Text("asphalt mixture, long name", 51)]}

GoodsTypeWidth == 50
AddressWidth == 255

\* A number bound to a DECIMAL column whose scale is one digit short of it:
\* the column keeps the nearest value of its scale (no input here lies
\* half-way between two).
toDecimal(n) == IF n < 0 THEN -((-n + 5) \div 10) ELSE (n + 5) \div 10

\* A DECIMAL column read through the pool (created without decimalNumbers):
\* the driver returns its decimal text, here with the number it denotes in
\* the unit of the request.
fromDecimal(d) == [text |-> d, number |-> d * 10]

\* The goods columns of INSERT INTO orders as the table stores them.
OrderDataRow(data) ==
    [goods_type |-> data.goodsType, weight |-> toDecimal(data.weight),
     price |-> toDecimal(data.price),
     start_address |-> data.startAddress, start_lat |-> toDecimal(data.startLat),
     start_lng |-> toDecimal(data.startLng),
     end_address |-> data.endAddress, end_lat |-> toDecimal(data.endLat),
     end_lng |-> toDecimal(data.endLng)]

\* The VARCHAR columns take the texts (strict SQL mode rejects a longer one).
fitsColumns(data) ==
    /\ data.goodsType.len <= GoodsTypeWidth
    /\ data.startAddress.len <= AddressWidth
    /\ data.endAddress.len <= AddressWidth

\* The row createOrder inserts; created_with remembers the request body it
\* came from (not a column).
InsertedRow(ownerId, data) ==
    NewOrderRow(ownerId) @@ OrderDataRow(data) @@ [created_with |-> data]

\* uuidv4(): an id no row has yet.
FreshOrderId == CHOOSE o \in OrderIds : orders[o] = NoOrder /\ \A p \in OrderIds : p < o => orders[p] # NoOrder

\* SELECT o.* FROM orders o WHERE o.order_id = ?
getOrderById(orderId) == IF Exists(orderId) THEN orders[orderId] ELSE NoOrder

\* The update without its status condition: WHERE order_id = ?
acceptOrderWhereNoStatus(orderId) == Exists(orderId)

\* UPDATE orders SET driver_id = ?, status = '运输中', accept_time = NOW()
\* WHERE order_id = ? AND status = '待接单'
acceptOrderWhere(orderId) == Exists(orderId) /\ orders[orderId].status = PENDING

acceptOrderSet(row, driverId) ==
    [row EXCEPT !.driver_id = driverId, !.status = IN_TRANSIT, !.accept_time = NOW]

\* The update without its start_time condition.
startTransportWhereAnyTime(orderId) ==
    Exists(orderId) /\ orders[orderId].status = IN_TRANSIT

\* UPDATE orders SET start_time = NOW()
\* WHERE order_id = ? AND status = '运输中' AND start_time IS NULL
startTransportWhere(orderId) ==
    Exists(orderId) /\ orders[orderId].status = IN_TRANSIT /\ orders[orderId].start_time = NULL

startTransportSet(row) == [row EXCEPT !.start_time = NOW]

\* UPDATE orders SET status = '已完成', complete_time = NOW()
\* WHERE order_id = ? AND status = '运输中'
completeOrderWhere(orderId) == Exists(orderId) /\ orders[orderId].status = IN_TRANSIT

\* The update without complete_time = NOW().
completeOrderSetNoTime(row) == [row EXCEPT !.status = COMPLETED]

completeOrderSet(row) == [row EXCEPT !.status = COMPLETED, !.complete_time = NOW]

\* The update without its status condition: WHERE order_id = ?
cancelOrderWhereNoStatus(orderId) == Exists(orderId)

\* UPDATE orders SET status = '已取消', cancel_time = NOW(), cancel_reason = ?
\* WHERE order_id = ? AND status = '待接单'
cancelOrderWhere(orderId) == Exists(orderId) /\ orders[orderId].status = PENDING

cancelOrderSet(row, reason) ==
    [row EXCEPT !.status = CANCELLED, !.cancel_time = NOW, !.cancel_reason = reason]

\* UPDATE driver_profiles SET driver_status = ? WHERE driver_id = ?
updateDriverStatus(driverId, status) ==
    driver_status' = [driver_status EXCEPT ![driverId] = status]

\* A store failure ends the call: the error propagates through the catch
\* blocks (log and rethrow) to the error middleware, which answers 500.
Fail(c, call, site) ==
    /\ faults' = faults + 1
    /\ Return(c, call, 500, "db", site)

\* ------------------------------------------------- orderService.createOrder
\* The controller's required fields: !orderData.weight and the like.
missingFields(data) ==
    \/ data.goodsType.len = 0 \/ data.weight = 0 \/ data.price = 0
    \/ data.startAddress.len = 0 \/ data.startLat = 0 \/ data.startLng = 0
    \/ data.endAddress.len = 0 \/ data.endLat = 0 \/ data.endLng = 0

\* The controller's check of the required fields, userDao.findById + role
\* check, userDao.getOwnerProfile.
CreateOrderBegin(c, userId, data, maxOrders) ==
    /\ StartsIn(c)
    /\ Cardinality({o \in OrderIds : Exists(o)})
         + Cardinality({d \in Calls : calls[d].op = "createOrder" /\ calls[d].pc = "insert"})
         < maxOrders
    /\ LET call == NewCall("createOrder", userId, 0) @@ [data |-> data]
           user == findById(userId)
       IN  IF missingFields(data)
           THEN Return(c, call, 400, "missing_fields", NULL)
           ELSE IF user = NoUser \/ user.role # "owner"
           THEN Return(c, call, 403, "owner_only", NULL)
           ELSE IF getOwnerProfile(userId) = NULL
           THEN Return(c, call, 404, "no_owner_profile", NULL)
           ELSE Goto(c, call, "insert")
    /\ UNCHANGED <<store, fanout, faults>>

\* orderDao.createOrder (getOrderById then re-reads the row just inserted).
CreateOrderInsert(c) ==
    /\ Running(c, "createOrder", {"insert"})
    /\ \E fail \in FailChoices :
         IF fail
         THEN /\ Fail(c, calls[c], "order")
              /\ UNCHANGED orders
         ELSE IF ~fitsColumns(calls[c].data)
         THEN /\ Return(c, calls[c], 500, "db", NULL)
              /\ UNCHANGED <<orders, faults, messages>>
         ELSE /\ orders' = [orders EXCEPT ![FreshOrderId] =
                               InsertedRow(getOwnerProfile(calls[c].user), calls[c].data)]
              /\ Goto(c, [calls[c] EXCEPT !.order = FreshOrderId, !.writes = @ \cup {"orders"}], "log")
              /\ UNCHANGED faults
    /\ UNCHANGED <<driver_status, logs, notifications, ratings, payments, tracks, current_pos, messages, fanout>>

\* orderDao.logOrderStatusChange(null -> '待接单'), then notifyNearbyDrivers is
\* started without await and the call returns.
CreateOrderLog(c) ==
    /\ Running(c, "createOrder", {"log"})
    /\ LET call == calls[c]
           row == LogRow(NULL, PENDING, call.user, "owner")
       IN  \E fail \in FailChoices :
             IF fail
             THEN /\ Fail(c, call, "log")
                  /\ UNCHANGED <<logs, messages, fanout>>
             ELSE /\ logOrderStatusChange(call.order, row)
                  /\ fanout' = [fanout EXCEPT ![call.order] = [pc |-> "query"]]
                  /\ Return(c, [call EXCEPT !.row = row, !.writes = @ \cup {"order_status_logs"}],
                            201, "ok", NULL)
                  /\ UNCHANGED faults
    /\ UNCHANGED <<orders, driver_status, notifications, ratings, payments, tracks, current_pos, messages>>

\* ------------------------------------------ orderService.notifyNearbyDrivers
Abs(x) == IF x < 0 THEN -x ELSE x

\* locationDao.getNearbyDrivers(lat, lng, radiusKm, status): the drivers with a
\* known position, of that status, HAVING distance < radiusKm.
getNearbyDrivers(pos, radiusKm, status) ==
    {d \in DriverIds : /\ d \in DOMAIN current_pos
                       /\ driver_status[d] = status
                       /\ Abs(current_pos[d] - pos) < radiusKm}

\* getNearbyDrivers and the getDriverProfileById of each driver found; any
\* error is caught and logged by notifyNearbyDrivers itself.
NotifyNearbyQuery(o) ==
    /\ ret = NoRet
    /\ fanout[o] = [pc |-> "query"]
    /\ \E fail \in FailChoices :
         IF fail
         THEN /\ faults' = faults + 1
              /\ fanout' = [fanout EXCEPT ![o] = NoTask]
         ELSE LET nearbyDrivers == getNearbyDrivers(StartPos, NearbyRadiusKm, FREE)
                  validUserIds == {getDriverProfileById(d) : d \in nearbyDrivers} \ {NULL}
              IN  /\ fanout' = [fanout EXCEPT ![o] =
                                   IF validUserIds = {} THEN NoTask
                                   ELSE [pc |-> "write", to |-> validUserIds]]
                  /\ UNCHANGED faults
    /\ ret' = NoRet
    /\ UNCHANGED <<store, calls>>

\* notificationDao.createNotificationBatch: one row per recipient in one INSERT.
NotifyNearbyWrite(o) ==
    /\ ret = NoRet
    /\ fanout[o].pc = "write"
    /\ \E fail \in FailChoices :
         IF fail
         THEN /\ faults' = faults + 1
              /\ UNCHANGED notifications
         ELSE /\ notifications' = [u \in UserIds |->
                                     IF u \in fanout[o].to
                                     THEN Append(notifications[u],
                                                 NotificationRow(u, notifications[u], "new_order", o))
                                     ELSE notifications[u]]
              /\ UNCHANGED faults
    /\ fanout' = [fanout EXCEPT ![o] = NoTask]
    /\ ret' = NoRet
    /\ UNCHANGED <<orders, driver_status, logs, ratings, payments, calls, tracks, current_pos, messages>>

\* ------------------------------------- status log and owner notification
\* The tail of acceptOrder, startTransport and completeOrder, all awaited
\* inside the method's try block:
\*   await orderDao.logOrderStatusChange({...});
\*   const ownerUser = await userDao.findById(order.owner_id);
\*   if (ownerUser) await notificationDao.createNotification({userId: ownerUser.user_id, ...});
\*   return {success: true, ...};
\* order.owner_id is the owner_profiles id the order row carries.  Nothing
\* else reads what the lookup and the notification insert touch, so the three
\* queries are one step; site is the query that throws, if one does.
LogAndNotifyOwner(c, op, previousStatus, currentStatus, type) ==
    /\ Running(c, op, {"log"})
    /\ LET call == calls[c]
           row == LogRow(previousStatus, currentStatus, call.user, "driver")
           logged == [call EXCEPT !.row = row, !.writes = @ \cup {"order_status_logs"}]
           ownerUser == findById(orders[call.order].owner_id)
           sites == IF ownerUser = NoUser THEN {"log", "lookup"} ELSE {"log", "lookup", "notify"}
       IN  \E fail \in FailChoices :
             IF fail
             THEN \E site \in sites :
                    /\ faults' = faults + 1
                    /\ Return(c, IF site = "log" THEN call ELSE logged, 500, "db", site)
                    /\ logs' = IF site = "log" THEN logs
                               ELSE [logs EXCEPT ![call.order] = Append(@, row)]
                    /\ UNCHANGED notifications
             ELSE /\ logOrderStatusChange(call.order, row)
                  /\ IF ownerUser = NoUser
                     THEN /\ UNCHANGED notifications
                          /\ Return(c, logged, 200, "ok", NULL)
                     ELSE /\ createNotification(ownerUser.user_id, type, call.order)
                          /\ Return(c, [logged EXCEPT !.writes = @ \cup {"notifications"}],
                                    200, "ok", NULL)
                  /\ UNCHANGED faults
    /\ UNCHANGED <<orders, driver_status, ratings, payments, tracks, current_pos, messages, fanout>>

\* ------------------------------------------------- orderService.acceptOrder
\* if (driverProfile.driver_status !== '空闲中') throw new ApiError(400, ...)
acceptDriverStatusOk(status) == status = FREE

\* userDao.findById + role check, userDao.getDriverProfile + driver status check.
AcceptOrderBegin(c, userId, orderId) ==
    /\ StartsIn(c)
    /\ LET call == NewCall("acceptOrder", userId, orderId)
           user == findById(userId)
           driverId == getDriverProfile(userId)
       IN  IF user = NoUser \/ user.role # "driver"
           THEN Return(c, call, 403, "driver_only", NULL)
           ELSE IF driverId = NULL
           THEN Return(c, call, 404, "no_driver_profile", NULL)
           ELSE IF ~acceptDriverStatusOk(driver_status[driverId])
           THEN Return(c, call, 400, "driver_not_free", NULL)
           ELSE Goto(c, call, "order")
    /\ UNCHANGED <<store, fanout, faults>>

\* acceptOrder without its order status check.
acceptOrderStatusOkAny(status) == TRUE

\* if (order.status !== '待接单') throw new ApiError(400, ...)
acceptOrderStatusOk(status) == status = PENDING

\* orderDao.getOrderById + order status check.
AcceptOrderGetOrder(c) ==
    /\ Running(c, "acceptOrder", {"order"})
    /\ LET call == calls[c]
           order == getOrderById(call.order)
       IN  IF order = NoOrder
           THEN Return(c, call, 404, "no_order", NULL)
           ELSE IF ~acceptOrderStatusOk(order.status)
           THEN Return(c, call, 400, "order_not_pending", NULL)
           ELSE Goto(c, call, "update")
    /\ UNCHANGED <<store, fanout, faults>>

\* orderDao.acceptOrder; if (!success) throw new ApiError(500, '接单失败')
AcceptOrderUpdate(c) ==
    /\ Running(c, "acceptOrder", {"update"})
    /\ LET call == calls[c] IN
       \E fail \in FailChoices :
         IF fail
         THEN /\ Fail(c, call, "order")
              /\ UNCHANGED orders
         ELSE /\ IF acceptOrderWhere(call.order)
                 THEN /\ orders' = [orders EXCEPT ![call.order] =
                                       acceptOrderSet(@, getDriverProfile(call.user))]
                      /\ Goto(c, [call EXCEPT !.writes = @ \cup {"orders"},
                                              !.pre = orders[call.order].status], "driver")
                 ELSE /\ Return(c, call, 500, "accept_failed", NULL)
                      /\ UNCHANGED orders
              /\ UNCHANGED faults
    /\ UNCHANGED <<driver_status, logs, notifications, ratings, payments, tracks, current_pos, messages, fanout>>

\* userDao.updateDriverStatus(driverProfile.driver_id, '运输中')
AcceptOrderDriverStatus(c) ==
    /\ Running(c, "acceptOrder", {"driver"})
    /\ \E fail \in FailChoices :
         IF fail
         THEN /\ Fail(c, calls[c], "driver")
              /\ UNCHANGED driver_status
         ELSE /\ updateDriverStatus(getDriverProfile(calls[c].user), BUSY)
              /\ Goto(c, [calls[c] EXCEPT !.writes = @ \cup {"driver_profiles"}], "log")
              /\ UNCHANGED faults
    /\ UNCHANGED <<orders, logs, notifications, ratings, payments, tracks, current_pos, messages, fanout>>

AcceptOrderLog(c) == LogAndNotifyOwner(c, "acceptOrder", PENDING, IN_TRANSIT, "order_accepted")

\* --------------------------------------------- orderService.startTransport
\* if (order.status !== '运输中') throw new ApiError(400, ...)
inTransitStatusOk(status) == status = IN_TRANSIT

\* if (order.driver_id !== driverProfile.driver_id) throw new ApiError(403, ...)
ownDriverOk(order, driverId) == order.driver_id = driverId

\* userDao.findById + role check, userDao.getDriverProfile, orderDao.getOrderById
\* + order status check + assigned driver check.
StartTransportBegin(c, userId, orderId) ==
    /\ StartsIn(c)
    /\ LET call == NewCall("startTransport", userId, orderId)
           user == findById(userId)
           order == getOrderById(orderId)
       IN  IF user = NoUser \/ user.role # "driver"
           THEN Return(c, call, 403, "driver_only", NULL)
           ELSE IF getDriverProfile(userId) = NULL
           THEN Return(c, call, 404, "no_driver_profile", NULL)
           ELSE IF order = NoOrder
           THEN Return(c, call, 404, "no_order", NULL)
           ELSE IF ~inTransitStatusOk(order.status)
           THEN Return(c, call, 400, "order_not_in_transit", NULL)
           ELSE IF ~ownDriverOk(order, getDriverProfile(userId))
           THEN Return(c, call, 403, "not_own_order", NULL)
           ELSE Goto(c, call, "update")
    /\ UNCHANGED <<store, fanout, faults>>

\* orderDao.startTransport; if (!success) throw new ApiError(500, '操作失败')
StartTransportUpdate(c) ==
    /\ Running(c, "startTransport", {"update"})
    /\ LET call == calls[c] IN
       \E fail \in FailChoices :
         IF fail
         THEN /\ Fail(c, call, "order")
              /\ UNCHANGED orders
         ELSE /\ IF startTransportWhere(call.order)
                 THEN /\ orders' = [orders EXCEPT ![call.order] = startTransportSet(@)]
                      /\ Goto(c, [call EXCEPT !.writes = @ \cup {"orders"},
                                              !.pre = orders[call.order].status], "log")
                 ELSE /\ Return(c, call, 500, "operation_failed", NULL)
                      /\ UNCHANGED orders
              /\ UNCHANGED faults
    /\ UNCHANGED <<driver_status, logs, notifications, ratings, payments, tracks, current_pos, messages, fanout>>

StartTransportLog(c) == LogAndNotifyOwner(c, "startTransport", IN_TRANSIT, IN_TRANSIT, "transport_started")

\* ---------------------------------------------- orderService.completeOrder
\* userDao.findById + role check, userDao.getDriverProfile, orderDao.getOrderById
\* + order status check + assigned driver check.
CompleteOrderBegin(c, userId, orderId) ==
    /\ StartsIn(c)
    /\ LET call == NewCall("completeOrder", userId, orderId)
           user == findById(userId)
           order == getOrderById(orderId)
       IN  IF user = NoUser \/ user.role # "driver"
           THEN Return(c, call, 403, "driver_only", NULL)
           ELSE IF getDriverProfile(userId) = NULL
           THEN Return(c, call, 404, "no_driver_profile", NULL)
           ELSE IF order = NoOrder
           THEN Return(c, call, 404, "no_order", NULL)
           ELSE IF ~inTransitStatusOk(order.status)
           THEN Return(c, call, 400, "order_not_in_transit", NULL)
           ELSE IF ~ownDriverOk(order, getDriverProfile(userId))
           THEN Return(c, call, 403, "not_own_order", NULL)
           ELSE Goto(c, call, "update")
    /\ UNCHANGED <<store, fanout, faults>>

\* orderDao.completeOrder; if (!success) throw new ApiError(500, '操作失败')
CompleteOrderUpdate(c) ==
    /\ Running(c, "completeOrder", {"update"})
    /\ LET call == calls[c] IN
       \E fail \in FailChoices :
         IF fail
         THEN /\ Fail(c, call, "order")
              /\ UNCHANGED orders
         ELSE /\ IF completeOrderWhere(call.order)
                 THEN /\ orders' = [orders EXCEPT ![call.order] = completeOrderSet(@)]
                      /\ Goto(c, [call EXCEPT !.writes = @ \cup {"orders"},
                                              !.pre = orders[call.order].status], "driver")
                 ELSE /\ Return(c, call, 500, "operation_failed", NULL)
                      /\ UNCHANGED orders
              /\ UNCHANGED faults
    /\ UNCHANGED <<driver_status, logs, notifications, ratings, payments, tracks, current_pos, messages, fanout>>

\* userDao.updateDriverStatus(driverProfile.driver_id, '空闲中')
CompleteOrderDriverStatus(c) ==
    /\ Running(c, "completeOrder", {"driver"})
    /\ \E fail \in FailChoices :
         IF fail
         THEN /\ Fail(c, calls[c], "driver")
              /\ UNCHANGED driver_status
         ELSE /\ updateDriverStatus(getDriverProfile(calls[c].user), FREE)
              /\ Goto(c, [calls[c] EXCEPT !.writes = @ \cup {"driver_profiles"}], "log")
              /\ UNCHANGED faults
    /\ UNCHANGED <<orders, logs, notifications, ratings, payments, tracks, current_pos, messages, fanout>>

CompleteOrderLog(c) == LogAndNotifyOwner(c, "completeOrder", IN_TRANSIT, COMPLETED, "order_completed")

\* ------------------------------------------------ orderService.cancelOrder
\* A status check that also lets an order in transit through.
cancelStatusOkAny(status) == status \in {PENDING, IN_TRANSIT}

\* if (order.status !== '待接单') throw new ApiError(400, ...)
cancelStatusOk(status) == status = PENDING

\* The role branch of cancelOrder: an owner must own the order, anyone else
\* must be a supervisor.
cancelPermitted(user, order) ==
    IF user.role = "owner"
    THEN getOwnerProfile(user.user_id) # NULL /\ order.owner_id = getOwnerProfile(user.user_id)
    ELSE user.role = "supervisor"

\* userDao.findById, orderDao.getOrderById + status check, then the role and
\* ownership check (userDao.getOwnerProfile for an owner).
CancelOrderBegin(c, userId, orderId) ==
    /\ StartsIn(c)
    /\ LET call == NewCall("cancelOrder", userId, orderId)
           user == findById(userId)
           order == getOrderById(orderId)
       IN  IF user = NoUser
           THEN Return(c, call, 404, "no_user", NULL)
           ELSE IF order = NoOrder
           THEN Return(c, call, 404, "no_order", NULL)
           ELSE IF ~cancelStatusOk(order.status)
           THEN Return(c, call, 400, "order_not_pending", NULL)
           ELSE IF ~cancelPermitted(user, order)
           THEN Return(c, call, 403, "cancel_not_permitted", NULL)
           ELSE Goto(c, call, "update")
    /\ UNCHANGED <<store, fanout, faults>>

\* orderDao.cancelOrder; if (!success) throw new ApiError(500, '操作失败')
CancelOrderUpdate(c) ==
    /\ Running(c, "cancelOrder", {"update"})
    /\ LET call == calls[c] IN
       \E fail \in FailChoices :
         IF fail
         THEN /\ Fail(c, call, "order")
              /\ UNCHANGED orders
         ELSE /\ IF cancelOrderWhere(call.order)
                 THEN /\ orders' = [orders EXCEPT ![call.order] = cancelOrderSet(@, "reason")]
                      /\ Goto(c, [call EXCEPT !.writes = @ \cup {"orders"},
                                              !.pre = orders[call.order].status], "log")
                 ELSE /\ Return(c, call, 500, "operation_failed", NULL)
                      /\ UNCHANGED orders
              /\ UNCHANGED faults
    /\ UNCHANGED <<driver_status, logs, notifications, ratings, payments, tracks, current_pos, messages, fanout>>

\* orderDao.logOrderStatusChange('待接单' -> '已取消', operatorRole: user.role);
\* cancelOrder sends no notification and returns.
CancelOrderLog(c) ==
    /\ Running(c, "cancelOrder", {"log"})
    /\ LET call == calls[c]
           row == LogRow(PENDING, CANCELLED, call.user, users[call.user])
       IN  \E fail \in FailChoices :
             IF fail
             THEN /\ Fail(c, call, "log")
                  /\ UNCHANGED logs
             ELSE /\ logOrderStatusChange(call.order, row)
                  /\ Return(c, [call EXCEPT !.row = row, !.writes = @ \cup {"order_status_logs"}],
                            200, "ok", NULL)
                  /\ UNCHANGED faults
    /\ UNCHANGED <<orders, driver_status, notifications, ratings, payments, tracks, current_pos, messages, fanout>>

\* --------------------------------------------------- orderService.addRating
\* The scores a request may carry: negative, missing (0), the highest valid
\* one and the first above it.
Scores == {-1, 0, 5, 6}

\* if (score < 1 || score > 5) throw new ApiError(400, ...)
scoreOkAny(score) == TRUE

scoreOk(score) == ~(score < 1 \/ score > 5)

\* if (order.status !== '已完成') throw new ApiError(400, ...)
ratingStatusOk(status) == status = COMPLETED

\* The relation check of addRating: 200 when the pair is the order's owner
\* rating its driver or its driver rating its owner, else the status of the
\* ApiError thrown.
ratingRelation(order, fromUser, toUser) ==
    IF fromUser.role = "owner" /\ toUser.role = "driver"
    THEN IF /\ getOwnerProfile(fromUser.user_id) # NULL
            /\ order.owner_id = getOwnerProfile(fromUser.user_id)
            /\ getDriverProfile(toUser.user_id) # NULL
            /\ order.driver_id = getDriverProfile(toUser.user_id)
         THEN 200 ELSE 403
    ELSE IF fromUser.role = "driver" /\ toUser.role = "owner"
    THEN IF /\ getDriverProfile(fromUser.user_id) # NULL
            /\ order.driver_id = getDriverProfile(fromUser.user_id)
            /\ getOwnerProfile(toUser.user_id) # NULL
            /\ order.owner_id = getOwnerProfile(toUser.user_id)
         THEN 200 ELSE 403
    ELSE 400

\* existingRatings.some(r => r.from_user_id === fromUserId && r.to_user_id === toUserId)
hasRated(orderId, fromUserId, toUserId) ==
    \E i \in DOMAIN ratings[orderId] :
        /\ ratings[orderId][i].from_user_id = fromUserId
        /\ ratings[orderId][i].to_user_id = toUserId

\* An addRating request: the call record also carries the rated user, the
\* score and whether the rating existed when the request arrived.
NewRatingCall(fromUserId, orderId, toUserId, score) ==
    NewCall("addRating", fromUserId, orderId)
        @@ [to |-> toUserId, score |-> score,
            dup0 |-> Exists(orderId) /\ hasRated(orderId, fromUserId, toUserId)]

RatingReturn(c, call, status, msg, fault) ==
    /\ ret' = Response(call, status, msg, fault)
                  @@ [to |-> call.to, score |-> call.score, dup0 |-> call.dup0]
    /\ calls' = [calls EXCEPT ![c] = Idle]

\* The controller's required-field check (!score), the score range check,
\* orderDao.getOrderById + status check, the two userDao.findById and the
\* relation check.
AddRatingBegin(c, fromUserId, orderId, toUserId, score) ==
    /\ StartsIn(c)
    /\ LET call == NewRatingCall(fromUserId, orderId, toUserId, score)
           order == getOrderById(orderId)
           fromUser == findById(fromUserId)
           toUser == findById(toUserId)
       IN  IF score = 0
           THEN RatingReturn(c, call, 400, "score_required", NULL)
           ELSE IF ~scoreOk(score)
           THEN RatingReturn(c, call, 400, "score_out_of_range", NULL)
           ELSE IF order = NoOrder
           THEN RatingReturn(c, call, 404, "no_order", NULL)
           ELSE IF ~ratingStatusOk(order.status)
           THEN RatingReturn(c, call, 400, "order_not_completed", NULL)
           ELSE IF fromUser = NoUser \/ toUser = NoUser
           THEN RatingReturn(c, call, 404, "no_user", NULL)
           ELSE IF ratingRelation(order, fromUser, toUser) = 403
           THEN RatingReturn(c, call, 403, "not_party", NULL)
           ELSE IF ratingRelation(order, fromUser, toUser) = 400
           THEN RatingReturn(c, call, 400, "invalid_relation", NULL)
           ELSE Goto(c, call, "ratings")
    /\ UNCHANGED <<store, fanout, faults>>

\* orderDao.getOrderRatings + hasRated check.
AddRatingCheck(c) ==
    /\ Running(c, "addRating", {"ratings"})
    /\ LET call == calls[c] IN
         IF hasRated(call.order, call.user, call.to)
         THEN RatingReturn(c, call, 400, "already_rated", NULL)
         ELSE Goto(c, call, "insert")
    /\ UNCHANGED <<store, fanout, faults>>

\* INSERT INTO ratings (rating_id, order_id, from_user_id, to_user_id, score, content)
RatingRow(fromUserId, toUserId, score) ==
    [from_user_id |-> fromUserId, to_user_id |-> toUserId, score |-> score]

\* orderDao.addRating
AddRatingInsert(c) ==
    /\ Running(c, "addRating", {"insert"})
    /\ LET call == calls[c] IN
       \E fail \in FailChoices :
         IF fail
         THEN /\ faults' = faults + 1
              /\ RatingReturn(c, call, 500, "db", "rating")
              /\ UNCHANGED ratings
         ELSE /\ ratings' = [ratings EXCEPT ![call.order] =
                                Append(@, RatingRow(call.user, call.to, call.score))]
              /\ Goto(c, [call EXCEPT !.writes = @ \cup {"ratings"}], "notify")
              /\ UNCHANGED faults
    /\ UNCHANGED <<orders, driver_status, logs, notifications, payments, tracks, current_pos, messages, fanout>>

\* await notificationDao.createNotification({userId: toUserId, type: 'new_rating'})
\* inside the try block, then return.
AddRatingNotify(c) ==
    /\ Running(c, "addRating", {"notify"})
    /\ LET call == calls[c] IN
       \E fail \in FailChoices :
         IF fail
         THEN /\ faults' = faults + 1
              /\ RatingReturn(c, call, 500, "db", "notify")
              /\ UNCHANGED notifications
         ELSE /\ createNotification(call.to, "new_rating", call.order)
              /\ RatingReturn(c, [call EXCEPT !.writes = @ \cup {"notifications"}],
                              201, "ok", NULL)
              /\ UNCHANGED faults
    /\ UNCHANGED <<orders, driver_status, logs, ratings, payments, tracks, current_pos, messages, fanout>>

\* -------------------------------------------------- orderService.addPayment
\* The amounts a request may carry: missing (0) and a price.
Amounts == {0, 100}

PAY_PENDING == "pay_pending"
PAID == "paid"

\* receiverId: driverProfile.id of the profile instead of its user_id.
paymentReceiverProfileId(driverId) == driverId

\* receiverId: driverProfile.user_id
paymentReceiver(driverId) == getDriverProfileById(driverId)

\* INSERT INTO payments (payment_id, order_id, amount, ..., payment_status,
\* payment_time, payer_id, receiver_id) with paymentStatus '待支付'.
PaymentRow(amount, payerId, receiverId) ==
    [amount |-> amount, payment_status |-> PAY_PENDING, payment_time |-> NULL,
     payer_id |-> payerId, receiver_id |-> receiverId]

\* UPDATE payments SET payment_status = ?, payment_time = NOW() WHERE payment_id = ?
updatePaymentStatus(row, status) ==
    [row EXCEPT !.payment_status = status,
                !.payment_time = IF status = PAID THEN NOW ELSE @]

\* An addPayment request: the call record also carries the amount, the
\* driver_id read from the order and the payment row inserted (0: none).
NewPaymentCall(userId, orderId, amount) ==
    NewCall("addPayment", userId, orderId) @@ [amount |-> amount, driver |-> NULL, payment |-> 0]

PaymentReturn(c, call, status, msg, fault) ==
    /\ ret' = Response(call, status, msg, fault)
                  @@ [amount |-> call.amount, driver |-> call.driver, payment |-> call.payment]
    /\ calls' = [calls EXCEPT ![c] = Idle]

\* The controller's required-field check (!amount), orderDao.getOrderById,
\* the role and ownership checks, the driver check and
\* userDao.getDriverProfileById.
AddPaymentBegin(c, userId, orderId, amount) ==
    /\ StartsIn(c)
    /\ Exists(orderId) => Len(payments[orderId])
         + Cardinality({d \in Calls : /\ calls[d].op = "addPayment"
                                     /\ calls[d].pc = "insert"
                                     /\ calls[d].order = orderId}) < MaxPayments
    /\ LET call == NewPaymentCall(userId, orderId, amount)
           order == getOrderById(orderId)
           user == findById(userId)
       IN  IF amount = 0
           THEN PaymentReturn(c, call, 400, "amount_required", NULL)
           ELSE IF order = NoOrder
           THEN PaymentReturn(c, call, 404, "no_order", NULL)
           ELSE IF user = NoUser \/ user.role # "owner"
           THEN PaymentReturn(c, call, 403, "owner_only", NULL)
           ELSE IF getOwnerProfile(userId) = NULL \/ order.owner_id # getOwnerProfile(userId)
           THEN PaymentReturn(c, call, 403, "not_own_order", NULL)
           ELSE IF order.driver_id = NULL
           THEN PaymentReturn(c, call, 400, "no_driver", NULL)
           ELSE IF getDriverProfileById(order.driver_id) = NULL
           THEN PaymentReturn(c, call, 404, "no_driver_profile", NULL)
           ELSE Goto(c, [call EXCEPT !.driver = order.driver_id], "insert")
    /\ UNCHANGED <<store, fanout, faults>>

\* orderDao.addPayment({..., paymentStatus: '待支付', payerId: userId,
\* receiverId: driverProfile.user_id})
AddPaymentInsert(c) ==
    /\ Running(c, "addPayment", {"insert"})
    /\ LET call == calls[c] IN
       \E fail \in FailChoices :
         IF fail
         THEN /\ faults' = faults + 1
              /\ PaymentReturn(c, call, 500, "db", "payment")
              /\ UNCHANGED payments
         ELSE /\ payments' = [payments EXCEPT ![call.order] =
                                 Append(@, PaymentRow(call.amount, call.user,
                                                      paymentReceiver(call.driver)))]
              /\ Goto(c, [call EXCEPT !.writes = @ \cup {"payments"},
                                      !.payment = Len(payments[call.order]) + 1], "paid")
              /\ UNCHANGED faults
    /\ UNCHANGED <<orders, driver_status, logs, notifications, ratings, tracks, current_pos, messages, fanout>>

\* orderDao.updatePaymentStatus(paymentId, '已支付')
AddPaymentPaid(c) ==
    /\ Running(c, "addPayment", {"paid"})
    /\ LET call == calls[c] IN
       \E fail \in FailChoices :
         IF fail
         THEN /\ faults' = faults + 1
              /\ PaymentReturn(c, call, 500, "db", "paid")
              /\ UNCHANGED payments
         ELSE /\ payments' = [payments EXCEPT ![call.order][call.payment] =
                                 updatePaymentStatus(@, PAID)]
              /\ Goto(c, call, "notify")
              /\ UNCHANGED faults
    /\ UNCHANGED <<orders, driver_status, logs, notifications, ratings, tracks, current_pos, messages, fanout>>

\* await notificationDao.createNotification({userId: driverProfile.user_id,
\* type: 'payment_received'}) inside the try block, then return.
AddPaymentNotify(c) ==
    /\ Running(c, "addPayment", {"notify"})
    /\ LET call == calls[c] IN
       \E fail \in FailChoices :
         IF fail
         THEN /\ faults' = faults + 1
              /\ PaymentReturn(c, call, 500, "db", "notify")
              /\ UNCHANGED notifications
         ELSE /\ createNotification(getDriverProfileById(call.driver),
                                    "payment_received", call.order)
              /\ PaymentReturn(c, [call EXCEPT !.writes = @ \cup {"notifications"}],
                               201, "ok", NULL)
              /\ UNCHANGED faults
    /\ UNCHANGED <<orders, driver_status, logs, ratings, payments, tracks, current_pos, messages, fanout>>

\* ---------------------------------------------- orderService.getOrderDetail
\* SELECT o.*, ... FROM orders o LEFT JOIN ... WHERE o.order_id = ?: the row
\* as the driver returns it.
getOrderWithDetails(orderId) ==
    LET row == orders[orderId] IN
    [order_id |-> orderId, status |-> row.status, owner_id |-> row.owner_id,
     driver_id |-> row.driver_id,
     goods_type |-> row.goods_type, weight |-> fromDecimal(row.weight),
     price |-> fromDecimal(row.price),
     start_address |-> row.start_address, start_lat |-> fromDecimal(row.start_lat),
     start_lng |-> fromDecimal(row.start_lng),
     end_address |-> row.end_address, end_lat |-> fromDecimal(row.end_lat),
     end_lng |-> fromDecimal(row.end_lng)]

\* An owner sees its own orders, a driver the pending ones and its own, a
\* supervisor all.
mayView(userId, order) ==
    CASE users[userId] = "owner" ->
             getOwnerProfile(userId) # NULL /\ order.owner_id = getOwnerProfile(userId)
      [] users[userId] = "driver" ->
             \/ order.status = PENDING
             \/ getDriverProfile(userId) # NULL /\ order.driver_id = getDriverProfile(userId)
      [] OTHER -> TRUE

\* orderDao.getOrderWithDetails and the permission check.
GetOrderDetailBegin(c, userId, orderId) ==
    /\ StartsIn(c)
    /\ LET call == NewCall("getOrderDetail", userId, orderId) @@ [detail |-> NoOrder] IN
       IF ~Exists(orderId)
       THEN Return(c, call, 404, "no_order", NULL)
       ELSE IF ~mayView(userId, getOrderWithDetails(orderId))
       THEN Return(c, call, 403, "not_permitted", NULL)
       ELSE Goto(c, [call EXCEPT !.detail = getOrderWithDetails(orderId)], "details")
    /\ UNCHANGED <<store, fanout, faults>>

\* getOrderStatusLogs, getOrderRatings and getLatestTransportTrack, then the
\* order read at the start is returned with them.
GetOrderDetailReturn(c) ==
    /\ Running(c, "getOrderDetail", {"details"})
    /\ LET call == calls[c] IN
       /\ ret' = Response(call, 200, "ok", NULL)
                   @@ [detail |-> call.detail, statusLogs |-> logs[call.order],
                       ratings |-> ratings[call.order]]
       /\ calls' = [calls EXCEPT ![c] = Idle]
    /\ UNCHANGED <<store, fanout, faults>>

\* ---------------------------------------- locationService.updateDriverLocation
\* The coordinates a request may carry: missing (0), a valid one, one out of
\* range.
Positions == {0, 7, 100}

\* The same for the longitude.
Longitudes == {0, 8, 200}

MaxLatitude == 90
MaxLongitude == 180

\* The seconds NOW() may show when a track is inserted.
Times == {1, 2}

\* locationDao.calculateDistance: the great-circle distance of two points,
\* here the distance along the grid of whole degrees, which like it is
\* symmetric and zero exactly between equal points.
calculateDistance(lat1, lng1, lat2, lng2) == Abs(lat2 - lat1) + Abs(lng2 - lng1)

\* Number.prototype.toFixed(2): the text of the number with two decimals.
toFixed2(hundredths) == [text |-> hundredths]

\* A DECIMAL(10,6) coordinate of whole degrees, in degrees.
degrees(d) == d \div 1000000

\* latitude, longitude, order.end_lat, order.end_lng -> distanceToDestination
distanceToDestination(lat, lng, order) ==
    toFixed2(100 * calculateDistance(lat, lng, degrees(order.end_lat), degrees(order.end_lng)))

\* No distance computed.
NoDistance == [text |-> NULL]

\* SELECT o.* FROM orders o WHERE o.driver_id = ? AND o.status = ?
\* ORDER BY o.create_time DESC: ids are given in creation order.
getOrders(driverId, status) ==
    {o \in OrderIds : Exists(o) /\ orders[o].driver_id = driverId /\ orders[o].status = status}

\* An empty result whatever the rows are.
FirstOfNone(activeOrders) == 0

\* activeOrders[0], 0 for an empty result.
FirstOf(activeOrders) ==
    IF activeOrders = {} THEN 0
    ELSE CHOOSE o \in activeOrders : \A p \in activeOrders : p <= o

\* INSERT INTO transport_tracks (track_id, order_id, driver_id, latitude,
\* longitude, speed, direction, track_time)
TrackRow(driverId, pos, lng, now) ==
    [driver_id |-> driverId, pos |-> pos, lng |-> lng, track_time |-> now]

\* The latest track_time of the table, 0 while it is empty.
LatestTrackTime ==
    LET times == UNION {{tracks[o][i].track_time : i \in DOMAIN tracks[o]} : o \in OrderIds} IN
    IF times = {} THEN 0 ELSE CHOOSE t \in times : \A u \in times : u <= t

\* The location updates answered or in flight.
Updates ==
    Len(tracks[1]) + Len(tracks[2])
      + Cardinality({c \in Calls : calls[c].op = "updateDriverLocation"})

\* An updateDriverLocation request: the call record also carries the
\* coordinates and the driver profile read at the start (driver_id and
\* driver_status); order is the order found in transit, 0 until then.
NewLocationCall(userId, pos, lng) ==
    NewCall("updateDriverLocation", userId, 0)
        @@ [pos |-> pos, lng |-> lng, driver |-> NULL, driver_status |-> NULL,
            distance |-> NoDistance]

LocationReturn(c, call, status, msg, fault) ==
    /\ ret' = Response(call, status, msg, fault)
                  @@ [pos |-> call.pos, lng |-> call.lng, driver |-> call.driver,
                      driver_status |-> call.driver_status, distance |-> call.distance]
    /\ calls' = [calls EXCEPT ![c] = Idle]

\* The controller's checks of the coordinates, userDao.findById and
\* userDao.getDriverProfile.
UpdateLocationBegin(c, userId, pos, lng) ==
    /\ StartsIn(c)
    /\ Updates < MaxUpdates
    /\ LET call == NewLocationCall(userId, pos, lng)
           user == findById(userId)
           driverId == getDriverProfile(userId)
       IN  IF pos = 0 \/ lng = 0
           THEN LocationReturn(c, call, 400, "position_required", NULL)
           ELSE IF pos < -MaxLatitude \/ pos > MaxLatitude
                   \/ lng < -MaxLongitude \/ lng > MaxLongitude
           THEN LocationReturn(c, call, 400, "position_out_of_range", NULL)
           ELSE IF user = NoUser \/ user.role # "driver"
           THEN LocationReturn(c, call, 403, "driver_only", NULL)
           ELSE IF driverId = NULL
           THEN LocationReturn(c, call, 404, "no_driver_profile", NULL)
           ELSE Goto(c, [call EXCEPT !.driver = driverId,
                                     !.driver_status = driver_status[driverId]],
                     "location")
    /\ UNCHANGED <<store, fanout, faults>>

\* locationDao.updateDriverLocation: UPDATE driver_profiles SET current_lat,
\* current_lng WHERE driver_id = ?; then the test of the driver_status read
\* at the start.
UpdateLocationWrite(c) ==
    /\ Running(c, "updateDriverLocation", {"location"})
    /\ LET call == calls[c] IN
       \E fail \in FailChoices :
         IF fail
         THEN /\ faults' = faults + 1
              /\ LocationReturn(c, call, 500, "db", "location")
              /\ UNCHANGED current_pos
         ELSE /\ current_pos' = (call.driver :> call.pos) @@ current_pos
              /\ LET done == [call EXCEPT !.writes = @ \cup {"driver_profiles"}] IN
                 IF call.driver_status = BUSY
                 THEN Goto(c, done, "orders")
                 ELSE LocationReturn(c, done, 200, "no_track", NULL)
              /\ UNCHANGED faults
    /\ UNCHANGED <<orders, driver_status, logs, notifications, ratings, payments, tracks, messages, fanout>>

\* orderDao.getOrders({driverId, status: '运输中'}) and activeOrders[0]
UpdateLocationGetOrders(c) ==
    /\ Running(c, "updateDriverLocation", {"orders"})
    /\ LET call == calls[c]
           order == FirstOf(getOrders(call.driver, IN_TRANSIT))
       IN  IF order = 0
           THEN LocationReturn(c, call, 200, "no_track", NULL)
           ELSE Goto(c, [call EXCEPT !.order = order, !.st0 = StatusOf(order)], "track")
    /\ UNCHANGED <<store, fanout, faults>>

\* locationDao.addTrackPoint({orderId: order.order_id, driverId, ...}), then
\* return.
UpdateLocationAddTrack(c, now) ==
    /\ Running(c, "updateDriverLocation", {"track"})
    /\ now >= LatestTrackTime
    /\ LET call == calls[c] IN
       \E fail \in FailChoices :
         IF fail
         THEN /\ faults' = faults + 1
              /\ LocationReturn(c, call, 500, "db", "track")
              /\ UNCHANGED tracks
         ELSE /\ tracks' = [tracks EXCEPT ![call.order] =
                               Append(@, TrackRow(call.driver, call.pos, call.lng, now))]
              /\ LocationReturn(c, [call EXCEPT !.writes = @ \cup {"transport_tracks"},
                                                !.pre = StatusOf(call.order),
                                                !.distance = distanceToDestination(
                                                    call.pos, call.lng, orders[call.order])],
                                200, "track_recorded", NULL)
              /\ UNCHANGED faults
    /\ UNCHANGED <<orders, driver_status, logs, notifications, ratings, payments, current_pos, messages, fanout>>

\* --------------------------------------------- locationService.getOrderTracks
SecondsPerHour == 3600

\* SELECT * FROM transport_tracks WHERE order_id = ? ORDER BY track_time ASC:
\* the rows in an order of ascending track_time, any one of them where rows
\* share a second.
getOrderTracks(orderId) ==
    LET rows == tracks[orderId]
        n == Len(rows)
    IN  {[i \in 1..n |-> rows[f[i]]] :
            f \in {g \in [1..n -> 1..n] :
                     /\ \A i, j \in 1..n : g[i] = g[j] => i = j
                     /\ \A i, j \in 1..n :
                          i < j => rows[g[i]].track_time <= rows[g[j]].track_time}}

\* for (let i = 1; i < tracks.length; i++) totalDistance += calculateDistance(
\* tracks[i - 1], tracks[i]): the sum up to sample i.
RECURSIVE totalDistance(_, _)
totalDistance(ts, i) ==
    IF i <= 1 THEN 0
    ELSE totalDistance(ts, i - 1)
           + calculateDistance(ts[i - 1].pos, ts[i - 1].lng, ts[i].pos, ts[i].lng)

\* timeElapsed > 0 ? totalDistance / timeElapsed : 0, in hundredths; without
\* the test the quotient is no finite number (-1 here).
averageSpeedUnguarded(total, seconds) ==
    IF seconds # 0 THEN (2 * 100 * total * SecondsPerHour + seconds) \div (2 * seconds) ELSE -1

averageSpeed(total, seconds) ==
    IF seconds > 0 THEN (2 * 100 * total * SecondsPerHour + seconds) \div (2 * seconds) ELSE 0

\* The result of getOrderTracks for the rows read.
TrackSummary(ts) ==
    IF Len(ts) > 0
    THEN [tracks |-> ts,
          totalDistance |-> toFixed2(100 * totalDistance(ts, Len(ts))),
          averageSpeed |-> toFixed2(averageSpeed(totalDistance(ts, Len(ts)),
                                                 ts[Len(ts)].track_time - ts[1].track_time)),
          trackCount |-> Len(ts)]
    ELSE [tracks |-> ts, totalDistance |-> [number |-> 0], averageSpeed |-> [number |-> 0],
          trackCount |-> 0]

\* orderDao.getOrderById, locationDao.getOrderTracks and the summary; the
\* controller answers 200 with it.
GetOrderTracks(c, userId, orderId) ==
    /\ StartsIn(c)
    /\ LET call == NewCall("getOrderTracks", userId, orderId) IN
       IF ~Exists(orderId)
       THEN /\ ret' = Response(call, 404, "no_order", NULL) @@ [data |-> NULL]
            /\ calls' = calls
       ELSE \E ts \in getOrderTracks(orderId) :
            /\ ret' = Response(call, 200, "ok", NULL) @@ [data |-> TrackSummary(ts)]
            /\ calls' = calls
    /\ UNCHANGED <<store, fanout, faults>>

\* ------------------------------------------- userService.updateDriverStatus
RESTING == "resting"

\* const validStatuses = ['空闲中', '运输中', '休息中']
validStatuses == {FREE, BUSY, RESTING}

\* The status values a request may carry.
StatusInputs == validStatuses \cup {"offline"}

\* The controller's checks (driver or supervisor; a driver only its own
\* profile), the service's check of the status value and
\* userDao.updateDriverStatus(driverId, status); the controller answers 200.
SetDriverStatus(c, userId, driverId, status) ==
    /\ StartsIn(c)
    /\ LET call == NewCall("updateDriverStatus", userId, 0)
                       @@ [driver |-> driverId, driver_status |-> status]
       IN  \E fail \in FailChoices :
           /\ calls' = calls
           /\ IF users[userId] \notin {"driver", "supervisor"}
              THEN /\ ret' = Response(call, 403, "driver_or_supervisor_only", NULL)
                                @@ [driver |-> driverId, driver_status |-> status]
                   /\ UNCHANGED <<driver_status, faults, messages>>
              ELSE IF users[userId] = "driver" /\ getDriverProfile(userId) # driverId
              THEN /\ ret' = Response(call, 403, "own_status_only", NULL)
                                @@ [driver |-> driverId, driver_status |-> status]
                   /\ UNCHANGED <<driver_status, faults, messages>>
              ELSE IF status \notin validStatuses
              THEN /\ ret' = Response(call, 400, "invalid_status", NULL)
                                @@ [driver |-> driverId, driver_status |-> status]
                   /\ UNCHANGED <<driver_status, faults, messages>>
              ELSE IF fail
              THEN /\ ret' = Response(call, 500, "db", "driver")
                                @@ [driver |-> driverId, driver_status |-> status]
                   /\ faults' = faults + 1
                   /\ UNCHANGED driver_status
              ELSE /\ updateDriverStatus(driverId, status)
                   /\ ret' = Response([call EXCEPT !.writes = {"driver_profiles"}], 200, "ok", NULL)
                                @@ [driver |-> driverId, driver_status |-> status]
                   /\ UNCHANGED faults
    /\ UNCHANGED <<orders, logs, notifications, ratings, payments, tracks, current_pos, messages, fanout>>

\* ---------------------------------------------------- notificationService
\* Message texts: the empty text, a short one, and one of 31 characters, one
\* more than the preview keeps.
PreviewLength == 30

Contents == {<<>>, <<"h", "i">>, [i \in 1..(PreviewLength + 1) |-> "x"]}

\* content.length > 30 ? `${content.substring(0, 30)}...` : content
preview(content) ==
    IF Len(content) > PreviewLength
    THEN SubSeq(content, 1, PreviewLength) \o <<".", ".", ".">>
    ELSE content

\* A request body without orderId: the service's default null.
NoOrderId == 0

\* The ids a request may name: those of the rows the inboxes of ud1 and uo1
\* hold or may come to hold.
MaxMessages == 1

NotificationIds == {"ud1", "uo1"} \X (1..(MaxMessages + 2))

\* SELECT * FROM notifications WHERE user_id = ? ORDER BY create_time DESC
\* LIMIT ?: the newest rows first, the clock taken to advance between inserts.
getUserNotifications(userId, limit) ==
    LET inbox == notifications[userId]
        n == IF limit < Len(inbox) THEN limit ELSE Len(inbox)
    IN  [i \in 1..n |-> inbox[Len(inbox) + 1 - i]]

\* notifications.find(n => n.notification_id === notificationId)
findNotification(rows, notificationId) ==
    \E i \in DOMAIN rows : rows[i].notification_id = notificationId

\* SET is_read = NOT is_read: the update as a toggle.
markNotificationAsReadToggle(userId, notificationId) ==
    [i \in DOMAIN notifications[userId] |->
        IF notifications[userId][i].notification_id = notificationId
        THEN [notifications[userId][i] EXCEPT !.is_read = ~@]
        ELSE notifications[userId][i]]

\* UPDATE notifications SET is_read = TRUE WHERE notification_id = ? AND
\* user_id = ?
markNotificationAsRead(userId, notificationId) ==
    [i \in DOMAIN notifications[userId] |->
        IF notifications[userId][i].notification_id = notificationId
        THEN [notifications[userId][i] EXCEPT !.is_read = TRUE]
        ELSE notifications[userId][i]]

\* UPDATE notifications SET is_read = TRUE WHERE user_id = ? AND is_read = FALSE
markAllNotificationsAsRead(userId) ==
    [i \in DOMAIN notifications[userId] |->
        [notifications[userId][i] EXCEPT !.is_read = TRUE]]

\* DELETE FROM notifications WHERE notification_id = ? AND user_id = ?
deleteNotification(userId, notificationId) ==
    SelectSeq(notifications[userId], LAMBDA row : row.notification_id # notificationId)

\* A call that names a notification; had records whether the caller's inbox
\* held it when the call looked it up.
InboxCall(op, userId, notificationId) ==
    NewCall(op, userId, NoOrderId)
        @@ [notification |-> notificationId,
            had |-> findNotification(notifications[userId], notificationId)]

InboxReturn(c, call, status, msg) ==
    /\ ret' = Response(call, status, msg, NULL)
                  @@ [notification |-> call.notification, had |-> call.had]
    /\ calls' = [calls EXCEPT ![c] = Idle]

\* userDao.findById and the look-up of the notification among the first page
\* of one row of the caller's inbox, a 404 when it is not there.
MarkNotificationAsReadBegin(c, userId, notificationId) ==
    /\ StartsIn(c)
    /\ LET call == InboxCall("markNotificationAsRead", userId, notificationId)
       IN  IF findNotification(getUserNotifications(userId, 1), notificationId)
           THEN /\ ret' = NoRet
                /\ calls' = [calls EXCEPT ![c] = [call EXCEPT !.pc = "write"]]
           ELSE /\ ret' = Response(call, 404, "notification_not_found", NULL)
                              @@ [notification |-> notificationId, had |-> call.had]
                /\ calls' = calls
    /\ UNCHANGED <<store, fanout, faults>>

\* notificationDao.markNotificationAsRead; the answer is 200 whatever the
\* number of rows the update matched.
MarkNotificationAsReadWrite(c) ==
    /\ Running(c, "markNotificationAsRead", {"write"})
    /\ LET call == calls[c]
       IN  /\ notifications' = [notifications EXCEPT ![call.user] =
                                   markNotificationAsRead(call.user, call.notification)]
           /\ InboxReturn(c, [call EXCEPT !.writes = {"notifications"}], 200, "ok")
    /\ UNCHANGED <<orders, driver_status, logs, ratings, payments, tracks, current_pos,
                   messages, fanout, faults>>

\* NotificationService.markAllNotificationsAsRead: findById, then the update.
MarkAllNotificationsAsRead(c, userId) ==
    /\ StartsIn(c)
    /\ notifications' = [notifications EXCEPT ![userId] = markAllNotificationsAsRead(userId)]
    /\ ret' = Response([NewCall("markAllNotificationsAsRead", userId, NoOrderId)
                           EXCEPT !.writes = {"notifications"}], 200, "ok", NULL)
    /\ calls' = calls
    /\ UNCHANGED <<orders, driver_status, logs, ratings, payments, tracks, current_pos,
                   messages, fanout, faults>>

\* The same look-up as markNotificationAsRead makes.
DeleteNotificationBegin(c, userId, notificationId) ==
    /\ StartsIn(c)
    /\ LET call == InboxCall("deleteNotification", userId, notificationId)
       IN  IF findNotification(getUserNotifications(userId, 1), notificationId)
           THEN /\ ret' = NoRet
                /\ calls' = [calls EXCEPT ![c] = [call EXCEPT !.pc = "write"]]
           ELSE /\ ret' = Response(call, 404, "notification_not_found", NULL)
                              @@ [notification |-> notificationId, had |-> call.had]
                /\ calls' = calls
    /\ UNCHANGED <<store, fanout, faults>>

\* notificationDao.deleteNotification.
DeleteNotificationWrite(c) ==
    /\ Running(c, "deleteNotification", {"write"})
    /\ LET call == calls[c]
       IN  /\ notifications' = [notifications EXCEPT ![call.user] =
                                   deleteNotification(call.user, call.notification)]
           /\ InboxReturn(c, [call EXCEPT !.writes = {"notifications"}], 200, "ok")
    /\ UNCHANGED <<orders, driver_status, logs, ratings, payments, tracks, current_pos,
                   messages, fanout, faults>>

\* Whether the user is a party of the order: its owner, its driver, or a
\* supervisor.
isUserRelatedToOrder(userId, order) ==
    IF users[userId] = "owner" THEN order.owner_id = getOwnerProfile(userId)
    ELSE IF users[userId] = "driver" THEN order.driver_id = getDriverProfile(userId)
    ELSE users[userId] = "supervisor"

\* INSERT INTO messages (message_id, sender_id, receiver_id, content, order_id)
MessageRow(senderId, receiverId, content, orderId) ==
    [sender_id |-> senderId, receiver_id |-> receiverId, content |-> content,
     order_id |-> orderId, is_read |-> FALSE]

\* The notification of a message: its content is the preview of the text.
MessageNotificationRow(userId, inbox, content) ==
    [notification_id |-> freshNotificationId(userId, inbox), type |-> "new_message",
     content |-> preview(content), is_read |-> FALSE]

\* The controller's check of the body and the service up to its first write:
\* both users are found; with an order id the service calls orderDao, a name
\* the module never binds, and the ReferenceError leaves as a 500.
SendMessageBegin(c, senderId, receiverId, content, orderId) ==
    /\ StartsIn(c)
    /\ Len(messages) < MaxMessages
    /\ LET call == NewCall("sendMessage", senderId, orderId)
                       @@ [receiver |-> receiverId, content |-> content]
       IN  IF content = <<>>
           THEN /\ ret' = Response(call, 400, "receiver_and_content_required", NULL)
                              @@ [receiver |-> receiverId, content |-> content]
                /\ calls' = calls
           ELSE IF orderId # NoOrderId
           THEN /\ ret' = Response(call, 500, "orderDao_is_not_defined", NULL)
                              @@ [receiver |-> receiverId, content |-> content]
                /\ calls' = calls
           ELSE /\ ret' = NoRet
                /\ calls' = [calls EXCEPT ![c] = [call EXCEPT !.pc = "message"]]
    /\ UNCHANGED <<store, fanout, faults>>

\* notificationDao.createMessage.
SendMessageCreate(c) ==
    /\ Running(c, "sendMessage", {"message"})
    /\ LET call == calls[c]
       IN  /\ messages' = Append(messages, MessageRow(call.user, call.receiver,
                                                      call.content, call.order))
           /\ Goto(c, [call EXCEPT !.writes = {"messages"}], "notify")
    /\ UNCHANGED <<orders, driver_status, logs, notifications, ratings, payments, tracks,
                   current_pos, fanout, faults>>

\* notificationDao.createNotification for the receiver; the controller
\* answers 201.
SendMessageNotify(c) ==
    /\ Running(c, "sendMessage", {"notify"})
    /\ LET call == calls[c]
       IN  /\ notifications' = [notifications EXCEPT ![call.receiver] =
                                   Append(@, MessageNotificationRow(call.receiver, @, call.content))]
           /\ ret' = Response([call EXCEPT !.writes = @ \cup {"notifications"}], 201, "ok", NULL)
                         @@ [receiver |-> call.receiver, content |-> call.content]
           /\ calls' = [calls EXCEPT ![c] = Idle]
    /\ UNCHANGED <<orders, driver_status, logs, ratings, payments, tracks, current_pos,
                   messages, fanout, faults>>

\* The database as init-db.js leaves it (the users and profiles above, no
\* order), no request in flight.
InitStore ==
    /\ orders = [o \in OrderIds |-> NoOrder]
    /\ driver_status = [d \in DriverIds |-> FREE]
    /\ logs = [o \in OrderIds |-> <<>>]
    /\ notifications = [u \in UserIds |-> <<>>]
    /\ ratings = [o \in OrderIds |-> <<>>]
    /\ payments = [o \in OrderIds |-> <<>>]
    /\ tracks = [o \in OrderIds |-> <<>>]
    /\ current_pos = InitPos
    /\ messages = <<>>
    /\ calls = [c \in Calls |-> Idle]
    /\ fanout = [o \in OrderIds |-> NoTask]
    /\ ret = NoRet

Init == InitStore /\ faults = 0

\* The same start with a store whose queries never fail.
InitNoFaults == InitStore /\ faults = MaxFaults

\* One order, every user calling every lifecycle operation, two requests in
\* flight.
Next ==
    \/ \E c \in Calls, u \in UserIds : CreateOrderBegin(c, u, PlainOrder, 1)
    \/ \E c \in Calls : CreateOrderInsert(c)
    \/ \E c \in Calls : CreateOrderLog(c)
    \/ \E c \in Calls, u \in UserIds : AcceptOrderBegin(c, u, 1)
    \/ \E c \in Calls : AcceptOrderGetOrder(c)
    \/ \E c \in Calls : AcceptOrderUpdate(c)
    \/ \E c \in Calls : AcceptOrderDriverStatus(c)
    \/ \E c \in Calls : AcceptOrderLog(c)
    \/ \E c \in Calls, u \in UserIds : StartTransportBegin(c, u, 1)
    \/ \E c \in Calls : StartTransportUpdate(c)
    \/ \E c \in Calls : StartTransportLog(c)
    \/ \E c \in Calls, u \in UserIds : CompleteOrderBegin(c, u, 1)
    \/ \E c \in Calls : CompleteOrderUpdate(c)
    \/ \E c \in Calls : CompleteOrderDriverStatus(c)
    \/ \E c \in Calls : CompleteOrderLog(c)
    \/ \E c \in Calls, u \in UserIds : CancelOrderBegin(c, u, 1)
    \/ \E c \in Calls : CancelOrderUpdate(c)
    \/ \E c \in Calls : CancelOrderLog(c)
    \/ \E o \in OrderIds : NotifyNearbyQuery(o)
    \/ \E o \in OrderIds : NotifyNearbyWrite(o)
    \/ Respond

Spec == Init /\ [][Next]_vars

\* Two orders of the one owner and one driver, two requests in flight, with
\* the fan-out tasks of createOrder left unscheduled: they write notifications
\* only.
NextTwoOrders ==
    \/ \E c \in Calls : CreateOrderBegin(c, "uo1", PlainOrder, 2)
    \/ \E c \in Calls : CreateOrderInsert(c)
    \/ \E c \in Calls : CreateOrderLog(c)
    \/ \E c \in Calls, o \in OrderIds : AcceptOrderBegin(c, "ud1", o)
    \/ \E c \in Calls : AcceptOrderGetOrder(c)
    \/ \E c \in Calls : AcceptOrderUpdate(c)
    \/ \E c \in Calls : AcceptOrderDriverStatus(c)
    \/ \E c \in Calls : AcceptOrderLog(c)
    \/ \E c \in Calls, o \in OrderIds : StartTransportBegin(c, "ud1", o)
    \/ \E c \in Calls : StartTransportUpdate(c)
    \/ \E c \in Calls : StartTransportLog(c)
    \/ \E c \in Calls, o \in OrderIds : CompleteOrderBegin(c, "ud1", o)
    \/ \E c \in Calls : CompleteOrderUpdate(c)
    \/ \E c \in Calls : CompleteOrderDriverStatus(c)
    \/ \E c \in Calls : CompleteOrderLog(c)
    \/ \E c \in Calls, o \in OrderIds : CancelOrderBegin(c, "uo1", o)
    \/ \E c \in Calls : CancelOrderUpdate(c)
    \/ \E c \in Calls : CancelOrderLog(c)
    \/ Respond

SpecTwoOrders == InitNoFaults /\ [][NextTwoOrders]_vars

\* The store after owner uo1 created orders 1 and 2, driver ud1 was told of
\* both, then accepted, started and completed order 1: order 1 completed,
\* order 2 pending, nothing in flight.
InitCompletedStore ==
    /\ orders = [o \in OrderIds |->
                   IF o = 1
                   THEN completeOrderSet(startTransportSet(acceptOrderSet(InsertedRow("o1", PlainOrder), "d1")))
                   ELSE InsertedRow("o1", PlainOrder)]
    /\ driver_status = [d \in DriverIds |-> FREE]
    /\ logs = [o \in OrderIds |->
                 IF o = 1
                 THEN <<LogRow(NULL, PENDING, "uo1", "owner"),
                        LogRow(PENDING, IN_TRANSIT, "ud1", "driver"),
                        LogRow(IN_TRANSIT, IN_TRANSIT, "ud1", "driver"),
                        LogRow(IN_TRANSIT, COMPLETED, "ud1", "driver")>>
                 ELSE <<LogRow(NULL, PENDING, "uo1", "owner")>>]
    /\ notifications = [u \in UserIds |->
                          IF u = "ud1"
                          THEN <<NotificationRow(u, <<>>, "new_order", 1),
                                 NotificationRow(u, <<NotificationRow(u, <<>>, "new_order", 1)>>,
                                                 "new_order", 2)>>
                          ELSE <<>>]
    /\ ratings = [o \in OrderIds |-> <<>>]
    /\ payments = [o \in OrderIds |-> <<>>]
    /\ tracks = [o \in OrderIds |-> <<>>]
    /\ current_pos = InitPos
    /\ messages = <<>>
    /\ calls = [c \in Calls |-> Idle]
    /\ fanout = [o \in OrderIds |-> NoTask]
    /\ ret = NoRet

InitCompleted == InitCompletedStore /\ faults = 0

\* Ratings of a completed and of a pending order, two requests in flight.
NextRating ==
    \/ \E c \in Calls, from \in UserIds, o \in OrderIds, to \in UserIds, score \in Scores :
           AddRatingBegin(c, from, o, to, score)
    \/ \E c \in Calls : AddRatingCheck(c)
    \/ \E c \in Calls : AddRatingInsert(c)
    \/ \E c \in Calls : AddRatingNotify(c)
    \/ Respond

SpecRating == InitCompleted /\ [][NextRating]_vars

\* Payments of a completed order and of a pending one, two requests in flight.
NextPayment ==
    \/ \E c \in Calls, u \in UserIds, o \in OrderIds, amount \in Amounts :
           AddPaymentBegin(c, u, o, amount)
    \/ \E c \in Calls : AddPaymentInsert(c)
    \/ \E c \in Calls : AddPaymentPaid(c)
    \/ \E c \in Calls : AddPaymentNotify(c)
    \/ Respond

SpecPayment == InitCompleted /\ [][NextPayment]_vars

\* One order of owner uo1, accepted and completed by driver ud1 while the
\* drivers report their positions, two requests in flight, the fan-out task
\* of createOrder left unscheduled.
NextTracks ==
    \/ \E c \in Calls : CreateOrderBegin(c, "uo1", PlainOrder, 1)
    \/ \E c \in Calls : CreateOrderInsert(c)
    \/ \E c \in Calls : CreateOrderLog(c)
    \/ \E c \in Calls : AcceptOrderBegin(c, "ud1", 1)
    \/ \E c \in Calls : AcceptOrderGetOrder(c)
    \/ \E c \in Calls : AcceptOrderUpdate(c)
    \/ \E c \in Calls : AcceptOrderDriverStatus(c)
    \/ \E c \in Calls : AcceptOrderLog(c)
    \/ \E c \in Calls : CompleteOrderBegin(c, "ud1", 1)
    \/ \E c \in Calls : CompleteOrderUpdate(c)
    \/ \E c \in Calls : CompleteOrderDriverStatus(c)
    \/ \E c \in Calls : CompleteOrderLog(c)
    \/ \E c \in Calls, u \in UserIds, pos \in Positions : UpdateLocationBegin(c, u, pos, 8)
    \/ \E c \in Calls : UpdateLocationWrite(c)
    \/ \E c \in Calls : UpdateLocationGetOrders(c)
    \/ \E c \in Calls : UpdateLocationAddTrack(c, 1)
    \/ Respond

SpecTracks == Init /\ [][NextTracks]_vars

\* Orders created from every request body and fetched back before any
\* transition, two requests in flight, the fan-out tasks left unscheduled.
NextRoundTrip ==
    \/ \E c \in Calls, u \in UserIds, data \in OrderInputs : CreateOrderBegin(c, u, data, 2)
    \/ \E c \in Calls : CreateOrderInsert(c)
    \/ \E c \in Calls : CreateOrderLog(c)
    \/ \E c \in Calls, u \in UserIds, o \in OrderIds : GetOrderDetailBegin(c, u, o)
    \/ \E c \in Calls : GetOrderDetailReturn(c)
    \/ Respond

SpecRoundTrip == Init /\ [][NextRoundTrip]_vars

\* The store after owner uo1 created order 1, driver ud1 was told of it and
\* accepted it: order 1 in transit, ud1 busy, ud2 free, nothing in flight.
InitInTransitStore ==
    /\ orders = [o \in OrderIds |->
                   IF o = 1 THEN acceptOrderSet(InsertedRow("o1", PlainOrder), "d1")
                   ELSE NoOrder]
    /\ driver_status = [d \in DriverIds |-> IF d = "d1" THEN BUSY ELSE FREE]
    /\ logs = [o \in OrderIds |->
                 IF o = 1
                 THEN <<LogRow(NULL, PENDING, "uo1", "owner"),
                        LogRow(PENDING, IN_TRANSIT, "ud1", "driver")>>
                 ELSE <<>>]
    /\ notifications = [u \in UserIds |->
                          IF u = "ud1" THEN <<NotificationRow(u, <<>>, "new_order", 1)>> ELSE <<>>]
    /\ ratings = [o \in OrderIds |-> <<>>]
    /\ payments = [o \in OrderIds |-> <<>>]
    /\ tracks = [o \in OrderIds |-> <<>>]
    /\ current_pos = InitPos
    /\ messages = <<>>
    /\ calls = [c \in Calls |-> Idle]
    /\ fanout = [o \in OrderIds |-> NoTask]
    /\ ret = NoRet

InitInTransit == InitInTransitStore /\ faults = 0

\* The drivers report positions while order 1 is in transit, and the tracks
\* of the orders are read back, two requests in flight.
NextLocation ==
    \/ \E c \in Calls, u \in UserIds, pos \in Positions \cup {9}, lng \in Longitudes :
           UpdateLocationBegin(c, u, pos, lng)
    \/ \E c \in Calls : UpdateLocationWrite(c)
    \/ \E c \in Calls : UpdateLocationGetOrders(c)
    \/ \E c \in Calls, now \in Times : UpdateLocationAddTrack(c, now)
    \/ \E c \in Calls, o \in OrderIds : GetOrderTracks(c, "us1", o)
    \/ Respond

SpecLocation == InitInTransit /\ [][NextLocation]_vars

\* One order of owner uo1, accepted and completed by driver ud1 or cancelled
\* by uo1, while drivers and the supervisor set driver statuses; two requests
\* in flight, no store failure, the fan-out task left unscheduled.
NextDriverStatus ==
    \/ \E c \in Calls : CreateOrderBegin(c, "uo1", PlainOrder, 1)
    \/ \E c \in Calls : CreateOrderInsert(c)
    \/ \E c \in Calls : CreateOrderLog(c)
    \/ \E c \in Calls : AcceptOrderBegin(c, "ud1", 1)
    \/ \E c \in Calls : AcceptOrderGetOrder(c)
    \/ \E c \in Calls : AcceptOrderUpdate(c)
    \/ \E c \in Calls : AcceptOrderDriverStatus(c)
    \/ \E c \in Calls : AcceptOrderLog(c)
    \/ \E c \in Calls : CompleteOrderBegin(c, "ud1", 1)
    \/ \E c \in Calls : CompleteOrderUpdate(c)
    \/ \E c \in Calls : CompleteOrderDriverStatus(c)
    \/ \E c \in Calls : CompleteOrderLog(c)
    \/ \E c \in Calls : CancelOrderBegin(c, "uo1", 1)
    \/ \E c \in Calls : CancelOrderUpdate(c)
    \/ \E c \in Calls : CancelOrderLog(c)
    \/ \E c \in Calls, u \in UserIds, d \in DriverIds, status \in StatusInputs :
           SetDriverStatus(c, u, d, status)
    \/ Respond

SpecDriverStatus == InitNoFaults /\ [][NextDriverStatus]_vars

\* The inbox of driver ud1 after its two new_order notifications, read and
\* deleted by ud1 and by owner uo1 while messages arrive, two requests in
\* flight.
NextNotifications ==
    \/ \E c \in Calls, u \in {"ud1", "uo1"}, n \in NotificationIds :
           MarkNotificationAsReadBegin(c, u, n)
    \/ \E c \in Calls : MarkNotificationAsReadWrite(c)
    \/ \E c \in Calls : MarkAllNotificationsAsRead(c, "ud1")
    \/ \E c \in Calls, u \in {"ud1", "uo1"}, n \in NotificationIds :
           DeleteNotificationBegin(c, u, n)
    \/ \E c \in Calls : DeleteNotificationWrite(c)
    \/ \E c \in Calls, content \in Contents, o \in {NoOrderId, 1} :
           SendMessageBegin(c, "uo1", "ud1", content, o)
    \/ \E c \in Calls : SendMessageCreate(c)
    \/ \E c \in Calls : SendMessageNotify(c)
    \/ Respond

SpecNotifications == InitCompleted /\ [][NextNotifications]_vars

\* ================================================================ properties
TransitionOps == {"acceptOrder", "startTransport", "completeOrder", "cancelOrder"}
LifecycleOps == {"createOrder"} \cup TransitionOps
Statuses == {PENDING, IN_TRANSIT, COMPLETED, CANCELLED}
Terminal == {COMPLETED, CANCELLED}

\* The rows of order o's status log that record an acceptance.
AcceptRows(o) ==
    {i \in DOMAIN logs[o] : /\ logs[o][i].previous_status = PENDING
                            /\ logs[o][i].current_status = IN_TRANSIT}

\* A response to operation op has just been sent.
Returned(op) == ret # NoRet /\ ret.op = op

\* ----------------------------------------------------------------------- C1
AcceptOnceInv ==
    /\ \A o \in OrderIds : Cardinality(AcceptRows(o)) <= 1
    /\ Returned("acceptOrder") =>
         /\ Succeeded(ret) =>
              /\ orders[ret.order].driver_id = getDriverProfile(ret.user)
              /\ \E i \in AcceptRows(ret.order) : logs[ret.order][i] = ret.row
         /\ ret.msg = "accept_failed" =>
              /\ orders[ret.order].status # PENDING
              /\ ret.writes = {}
         /\ ("orders" \in ret.writes /\ ret.fault = NULL) => Succeeded(ret)

DriverIdSetOnce ==
    \A o \in OrderIds :
      (Exists(o) /\ orders[o].driver_id # NULL) => orders'[o].driver_id = orders[o].driver_id

\* C1: of the acceptOrder calls that race for one pending order at most one
\* succeeds (one acceptance row at most, written by the call that succeeded);
\* the call whose conditional update matched succeeds unless the store fails
\* under it, the call whose update matched nothing fails having written
\* nothing; the order's driver_id is the winner's and, once set, never changes.
AcceptOnce == []AcceptOnceInv /\ [][DriverIdSetOnce]_vars

\* A driver has lost the race for the order another driver accepted.
AcceptRaceLost ==
    /\ Returned("acceptOrder")
    /\ ret.msg = "accept_failed"
    /\ orders[ret.order].driver_id \notin {NULL, getDriverProfile(ret.user)}
    /\ \E i \in AcceptRows(ret.order) : logs[ret.order][i].operator_id # ret.user

\* ----------------------------------------------------------------------- C2
\* The conditional update of this acceptOrder call matched no row: another
\* driver has the order.
LostToOtherDriver ==
    /\ Returned("acceptOrder")
    /\ ret.msg = "accept_failed"
    /\ orders[ret.order].driver_id \notin {NULL, getDriverProfile(ret.user)}

\* C2: the acceptOrder call that lost the order to another driver answers
\* 409 (ConflictError), not the 500 of a store failure, and its driver's
\* profile is still free.
LoserGetsConflict ==
    LostToOtherDriver =>
        /\ ret.status = 409
        /\ driver_status[getDriverProfile(ret.user)] = FREE

\* ----------------------------------------------------------------------- C3
InTransitOrdersOf(d) ==
    {o \in OrderIds : Exists(o) /\ orders[o].status = IN_TRANSIT /\ orders[o].driver_id = d}

\* C3: every driver is the assigned driver of at most one in_transit order.
OneActiveOrderPerDriver == \A d \in DriverIds : Cardinality(InTransitOrdersOf(d)) <= 1

\* ----------------------------------------------------------------------- C4
StatusInDomain == \A o \in OrderIds : Exists(o) => orders[o].status \in Statuses

\* A transition call that began when its order was already completed or cancelled
\* has been answered.
ReturnedOnTerminal == ret # NoRet /\ ret.op \in TransitionOps /\ ret.st0 \in Terminal

\* The role check that opens acceptOrder, startTransport and completeOrder;
\* cancelOrder checks the order's status before the caller's role.
FailsRoleCheck(r) == r.op # "cancelOrder" /\ users[r.user] # "driver"

TerminalInv ==
    /\ StatusInDomain
    /\ ReturnedOnTerminal =>
         /\ ret.status = IF FailsRoleCheck(ret) THEN 403 ELSE 400
         /\ ret.writes = {}
         /\ StatusOf(ret.order) = ret.st0

TerminalStable ==
    \A o \in OrderIds : (Exists(o) /\ orders[o].status \in Terminal) => orders'[o] = orders[o]

AcceptWrites == {"orders", "driver_profiles", "order_status_logs"}

\* C5: when acceptOrder returns, with success or because a store query
\* failed, it has applied none of its writes or all of them.
AcceptAllOrNothing ==
    (Returned("acceptOrder") /\ (Succeeded(ret) \/ ret.fault # NULL)) =>
        (ret.writes = {} \/ AcceptWrites \subseteq ret.writes)

\* ----------------------------------------------------------------------- C6
\* The order row still carries the change the answered call made to it.
ChangeStands(r) ==
    /\ "orders" \in r.writes
    /\ Exists(r.order)
    /\ CASE r.op = "createOrder" -> TRUE
         [] r.op = "acceptOrder" -> orders[r.order].accept_time # NULL
         [] r.op = "startTransport" -> orders[r.order].start_time # NULL
         [] r.op = "completeOrder" -> orders[r.order].complete_time # NULL
         [] r.op = "cancelOrder" -> orders[r.order].cancel_time # NULL

\* C6: after a call whose status-log insert failed, the order row does not
\* carry that call's change.
LogFailureRollsBack ==
    (ret # NoRet /\ ret.op \in LifecycleOps /\ ret.fault = "log") => ~ChangeStands(ret)

\* ----------------------------------------------------------------------- C7
\* C7: a call whose recipient lookup or notification insert failed after its
\* change was committed still answers success.
NotifyFailureHidden ==
    (ret # NoRet /\ ret.fault \in {"lookup", "notify"}) => Succeeded(ret)

\* ----------------------------------------------------------------------- C8
\* A cancelOrder call on an order that was not pending has been answered.
CancelOnNonPending == Returned("cancelOrder") /\ ret.st0 \in Statuses \ {PENDING}

CancelInv ==
    /\ CancelOnNonPending =>
         /\ ret.status = 400
         /\ ret.msg = "order_not_pending"
         /\ ret.writes = {}
    /\ (Returned("cancelOrder") /\ Succeeded(ret)) => (ret.st0 = PENDING /\ ret.pre = PENDING)
    /\ (Returned("cancelOrder") /\ ret.msg = "operation_failed") =>
         (ret.writes = {} /\ StatusOf(ret.order) # PENDING)

\* The step that answers a cancelOrder call on a non-pending order changes no
\* row, and only a pending order becomes cancelled.
CancelStep ==
    /\ CancelOnNonPending' => store' = store
    /\ \A o \in OrderIds :
         (Exists(o) /\ orders'[o].status = CANCELLED /\ orders[o].status # CANCELLED)
             => orders[o].status = PENDING

\* C8: cancelOrder succeeds only on an order that is pending when the call
\* reads it and when it updates it; a call that finds the order in_transit,
\* completed or cancelled answers the precondition error 400 and changes
\* nothing, whoever the caller is; a call whose update finds the order no
\* longer pending changes nothing either.
CancelOnlyPending == []CancelInv /\ [][CancelStep]_vars

\* The supervisor's cancelOrder on an order in transit is refused.
CancelInTransitRefused ==
    /\ Returned("cancelOrder")
    /\ ret.st0 = IN_TRANSIT
    /\ ret.user = "us1"
    /\ ret.status = 400

\* ----------------------------------------------------------------------- C9
\* The caller of the answered call is not one the operation admits: the wrong
\* role, or not the driver (the owner) of the order.
NotPermitted(r) ==
    CASE r.op = "createOrder" -> users[r.user] # "owner"
      [] r.op = "acceptOrder" -> users[r.user] # "driver"
      [] r.op \in {"startTransport", "completeOrder"} ->
             \/ users[r.user] # "driver"
             \/ orders[r.order].driver_id \notin {NULL, getDriverProfile(r.user)}
      [] r.op = "cancelOrder" ->
             \/ users[r.user] = "driver"
             \/ users[r.user] = "owner" /\ orders[r.order].owner_id # getOwnerProfile(r.user)

\* C9: a caller the operation does not admit gets 403 on an existing order,
\* whatever the order's state, and nothing has been written.
PermissionFirst ==
    (/\ ret # NoRet
     /\ ret.op \in LifecycleOps
     /\ (ret.op = "createOrder" \/ ret.st0 # NULL)
     /\ NotPermitted(ret)) => (ret.status = 403 /\ ret.writes = {})

\* ---------------------------------------------------------------------- C10
\* The status an order has after the operation.
StatusAfter(op) ==
    CASE op = "createOrder" -> PENDING
      [] op = "acceptOrder" -> IN_TRANSIT
      [] op = "startTransport" -> IN_TRANSIT
      [] op = "completeOrder" -> COMPLETED
      [] op = "cancelOrder" -> CANCELLED

\* C10: a successful lifecycle call has appended exactly one log row, from
\* the status the order had before the call's change to the status after it;
\* a failed call has appended none.
OneLogRowPerCall ==
    (ret # NoRet /\ ret.op \in LifecycleOps) =>
        IF Succeeded(ret)
        THEN /\ ret.row # NoRow
             /\ ret.row.previous_status = ret.pre
             /\ ret.row.current_status = StatusAfter(ret.op)
             /\ Cardinality({i \in DOMAIN logs[ret.order] : logs[ret.order][i] = ret.row}) = 1
        ELSE ret.row = NoRow

\* ---------------------------------------------------------------------- C11
\* The notification type each driver operation sends to the order's owner.
OwnerNotice(op) ==
    CASE op = "acceptOrder" -> "order_accepted"
      [] op = "startTransport" -> "transport_started"
      [] op = "completeOrder" -> "order_completed"

\* The user id of the owner who created order o.
OwnerUserOf(o) == owner_profiles[orders[o].owner_id]

\* C11: when acceptOrder, startTransport or completeOrder has answered
\* success, the owner of the order has a notification of the operation's
\* type for that order.
OwnerNotified ==
    (/\ ret # NoRet
     /\ ret.op \in {"acceptOrder", "startTransport", "completeOrder"}
     /\ Succeeded(ret)) =>
        \E i \in DOMAIN notifications[OwnerUserOf(ret.order)] :
            /\ notifications[OwnerUserOf(ret.order)][i].type = OwnerNotice(ret.op)
            /\ notifications[OwnerUserOf(ret.order)][i].order = ret.order

\* ---------------------------------------------------------------------- C12
\* C12: when completeOrder answers success the order is completed and its
\* driver free; when the call that moved the order out of in_transit answers
\* with an error of the store, the order is in_transit and its driver busy
\* as before the call.
CompleteAllOrNothing ==
    Returned("completeOrder") =>
        /\ Succeeded(ret) =>
             /\ orders[ret.order].status = COMPLETED
             /\ driver_status[getDriverProfile(ret.user)] = FREE
        /\ (ret.fault # NULL /\ "orders" \in ret.writes) =>
             /\ orders[ret.order].status = IN_TRANSIT
             /\ driver_status[getDriverProfile(ret.user)] = BUSY

\* ---------------------------------------------------------------------- C13
\* The rows of order o's status log that record a start of transport.
StartRows(o) ==
    {i \in DOMAIN logs[o] : /\ logs[o][i].previous_status = IN_TRANSIT
                            /\ logs[o][i].current_status = IN_TRANSIT}

StartOnceInv ==
    /\ \A o \in OrderIds : Cardinality(StartRows(o)) <= 1
    /\ Returned("startTransport") =>
         /\ Succeeded(ret) =>
              /\ "orders" \in ret.writes
              /\ \E i \in StartRows(ret.order) : logs[ret.order][i] = ret.row
         /\ "orders" \notin ret.writes =>
              /\ ~Succeeded(ret)
              /\ ret.writes = {}
              /\ ret.row = NoRow
         /\ ret.msg = "operation_failed" =>
              (orders[ret.order].start_time # NULL \/ orders[ret.order].status # IN_TRANSIT)

\* The update of a startTransport call matches only while start_time is NULL,
\* and a start_time once set stays.
StartOnceStep ==
    /\ \A c \in Calls :
         (calls[c].op = "startTransport" /\ calls[c].pc = "update" /\ calls'[c].pc = "log")
             => orders[calls[c].order].start_time = NULL
    /\ \A o \in OrderIds :
         (Exists(o) /\ orders[o].start_time # NULL) => orders'[o].start_time = orders[o].start_time

\* C13: for one order the update of at most one startTransport call matches
\* and only that call can succeed; every other call fails and has written
\* nothing (no order change, no log row, no notification); start_time keeps
\* its first value.
StartOnce == []StartOnceInv /\ [][StartOnceStep]_vars

\* A startTransport call found the transport already started by another call.
StartRepeatRefused ==
    /\ Returned("startTransport")
    /\ ret.msg = "operation_failed"
    /\ StartRows(ret.order) # {}

\* ---------------------------------------------------------------------- C16
\* C16: an order has a driver exactly when it is in_transit or completed.
DriverIffAccepted ==
    \A o \in OrderIds :
        Exists(o) => (orders[o].driver_id # NULL <=> orders[o].status \in {IN_TRANSIT, COMPLETED})

\* An order was cancelled while an acceptOrder call on it was in flight.
CancelledUnderAccept ==
    \E c \in Calls :
        /\ calls[c].op = "acceptOrder"
        /\ calls[c].pc = "update"
        /\ orders[calls[c].order].status = CANCELLED
        /\ orders[calls[c].order].driver_id = NULL

\* ---------------------------------------------------------------------- C17
\* C17: accept_time is set exactly on an order that has a driver, start_time
\* only on an accepted order in_transit or completed, complete_time exactly
\* on a completed order, cancel_time exactly on a cancelled one, and never
\* both of the last two.
TimestampsFollowTransitions ==
    \A o \in OrderIds :
        Exists(o) =>
            /\ orders[o].accept_time # NULL <=> orders[o].driver_id # NULL
            /\ orders[o].start_time # NULL =>
                   (orders[o].accept_time # NULL /\ orders[o].status \in {IN_TRANSIT, COMPLETED})
            /\ orders[o].complete_time # NULL <=> orders[o].status = COMPLETED
            /\ orders[o].cancel_time # NULL <=> orders[o].status = CANCELLED
            /\ ~(orders[o].complete_time # NULL /\ orders[o].cancel_time # NULL)

\* A completed order that went through every transition.
CompletedAfterStart ==
    \E o \in OrderIds :
        /\ Exists(o)
        /\ orders[o].status = COMPLETED
        /\ orders[o].start_time # NULL
        /\ orders[o].complete_time # NULL

\* ---------------------------------------------------------------------- C14
\* C14: no order has two ratings with the same from-user and to-user.
OneRatingPerTriple ==
    \A o \in OrderIds : \A i, j \in DOMAIN ratings[o] :
        (/\ ratings[o][i].from_user_id = ratings[o][j].from_user_id
         /\ ratings[o][i].to_user_id = ratings[o][j].to_user_id) => i = j

\* ---------------------------------------------------------------------- C15
\* The user id of the driver assigned to order o.
DriverUserOf(o) == driver_profiles[orders[o].driver_id]

\* from and to are the owner and the assigned driver of order o, in either
\* direction.
PartiesOf(o, from, to) ==
    /\ Exists(o)
    /\ orders[o].driver_id # NULL
    /\ \/ from = OwnerUserOf(o) /\ to = DriverUserOf(o)
       \/ from = DriverUserOf(o) /\ to = OwnerUserOf(o)

\* The answered addRating request breaks a rule of ratings.
BadRating(r) ==
    \/ r.score \notin 1..5
    \/ ~Exists(r.order)
    \/ orders[r.order].status # COMPLETED
    \/ ~PartiesOf(r.order, r.user, r.to)
    \/ r.dup0

\* C15: every rating row is on a completed order, has a score in 1..5 and
\* goes between the order's owner and its assigned driver; an addRating
\* request that breaks one of these, or whose (from, to, order) rating
\* existed when it arrived, is rejected and has written nothing.
RatingsWellFormed ==
    /\ \A o \in OrderIds : \A i \in DOMAIN ratings[o] :
         /\ Exists(o)
         /\ orders[o].status = COMPLETED
         /\ ratings[o][i].score \in 1..5
         /\ PartiesOf(o, ratings[o][i].from_user_id, ratings[o][i].to_user_id)
    /\ (Returned("addRating") /\ BadRating(ret)) =>
         /\ ret.status \in {400, 403, 404}
         /\ ret.writes = {}

\* The owner's second rating of the driver on the completed order is refused.
RepeatRatingRefused ==
    /\ Returned("addRating")
    /\ ret.dup0
    /\ ret.user = "uo1"
    /\ ret.msg = "already_rated"
    /\ ratings[ret.order] # <<>>

\* ---------------------------------------------------------------------- C20
\* The caller of the answered addPayment request is not the owner of the
\* order, or the order has no driver.
BadPayment(r) ==
    \/ users[r.user] # "owner"
    \/ ~Exists(r.order)
    \/ r.user # OwnerUserOf(r.order)
    \/ orders[r.order].driver_id = NULL

PaymentsInv ==
    /\ \A o \in OrderIds : \A i \in DOMAIN payments[o] :
         /\ Exists(o)
         /\ orders[o].driver_id # NULL
         /\ payments[o][i].payer_id = OwnerUserOf(o)
         /\ payments[o][i].receiver_id = DriverUserOf(o)
         /\ payments[o][i].payment_status \in {PAY_PENDING, PAID}
    /\ (Returned("addPayment") /\ BadPayment(ret)) =>
         /\ ret.status \in {400, 403, 404}
         /\ ret.writes = {}
         /\ ret.payment = 0

\* A payment row appears only as the insert of an addPayment call of the
\* order's owner, with status pending; a row that exists changes only from
\* pending to paid, and none disappears.
PaymentsStep ==
    \A o \in OrderIds :
        /\ Len(payments'[o]) >= Len(payments[o])
        /\ \A i \in DOMAIN payments[o] :
             \/ payments'[o][i] = payments[o][i]
             \/ /\ payments[o][i].payment_status = PAY_PENDING
                /\ payments'[o][i] = updatePaymentStatus(payments[o][i], PAID)
        /\ Len(payments'[o]) > Len(payments[o]) =>
             /\ Len(payments'[o]) = Len(payments[o]) + 1
             /\ payments'[o][Len(payments'[o])].payment_status = PAY_PENDING
             /\ \E c \in Calls : /\ calls[c].op = "addPayment"
                                 /\ calls[c].pc = "insert"
                                 /\ calls[c].order = o
                                 /\ calls[c].user = OwnerUserOf(o)
                                 /\ calls'[c].pc = "paid"

\* C20: every payment row was inserted by an addPayment call of the order's
\* owner on an order with a driver, from that owner's user id to that
\* driver's user id; it is pending at insert, can only become paid and never
\* goes back; a request by anyone else, or on an order without a driver, is
\* rejected and writes no row.
PaymentsWellFormed == []PaymentsInv /\ [][PaymentsStep]_vars

\* The owner has paid the completed order.
PaymentPaid ==
    /\ Returned("addPayment")
    /\ Succeeded(ret)
    /\ ret.payment # 0
    /\ payments[ret.order][ret.payment].payment_status = PAID

\* ---------------------------------------------------------------------- C18
\* C18: a step that appends a track row to an order finds that order
\* in_transit (never completed) and writes the driver assigned to it, and
\* every track row carries the driver of its order.
TrackOnlyInTransit ==
    /\ \A o \in OrderIds : \A i \in DOMAIN tracks[o] :
         Exists(o) /\ tracks[o][i].driver_id = orders[o].driver_id
    /\ (Returned("updateDriverLocation") /\ "transport_tracks" \in ret.writes) =>
         ret.pre = IN_TRANSIT

\* ---------------------------------------------------------------------- C19
\* The fetched order carries the values of the request body it was created
\* with.
SameData(detail, data) ==
    /\ detail.goods_type = data.goodsType
    /\ detail.weight.number = data.weight
    /\ detail.price.number = data.price
    /\ detail.start_address = data.startAddress
    /\ detail.start_lat.number = data.startLat
    /\ detail.start_lng.number = data.startLng
    /\ detail.end_address = data.endAddress
    /\ detail.end_lat.number = data.endLat
    /\ detail.end_lng.number = data.endLng

\* C19: an order fetched before any transition comes back with the goods
\* type, weight, price, addresses and coordinates it was created with, status
\* pending, the creating owner and no driver.
CreateFetchRoundTrip ==
    (Returned("getOrderDetail") /\ Succeeded(ret)) =>
        /\ SameData(ret.detail, orders[ret.order].created_with)
        /\ ret.detail.status = PENDING
        /\ ret.detail.owner_id = orders[ret.order].owner_id
        /\ ret.detail.driver_id = NULL

\* ---------------------------------------------------------------------- C22
\* The answered startTransport or completeOrder call was made by a driver
\* other than the one assigned to the order.
ByOtherDriver(r) ==
    /\ r.op \in {"startTransport", "completeOrder"}
    /\ users[r.user] = "driver"
    /\ r.st0 # NULL
    /\ orders[r.order].driver_id \notin {NULL, getDriverProfile(r.user)}

\* C22: startTransport and completeOrder by a driver other than the assigned
\* one answer 403 and have written nothing.
OtherDriverRefused ==
    (ret # NoRet /\ ByOtherDriver(ret)) => (ret.status = 403 /\ ret.writes = {})

\* ---------------------------------------------------------------------- C28
\* C28: the status log of every order is a chain that starts with
\* null -> pending, each later row starting from the status the row before
\* it ended in.
LogChain ==
    \A o \in OrderIds : \A i \in DOMAIN logs[o] :
        IF i = 1
        THEN logs[o][i].previous_status = NULL /\ logs[o][i].current_status = PENDING
        ELSE logs[o][i].previous_status = logs[o][i - 1].current_status

\* ---------------------------------------------------------------------- C30
\* The rows of order o's status log that record a cancellation.
CancelRows(o) ==
    {i \in DOMAIN logs[o] : /\ logs[o][i].previous_status = PENDING
                            /\ logs[o][i].current_status = CANCELLED}

\* C30: of acceptOrder and cancelOrder on one pending order exactly one takes
\* the order.  A cancelled order has no driver and no acceptance log and has
\* left every driver free; an accepted order has no cancel_time, no
\* cancel_reason and no cancellation log.  The call whose update took the
\* order answers success unless the store fails afterwards; the other one
\* fails, having written nothing, and only because the order was taken.
AcceptCancelRace ==
    /\ \A o \in OrderIds : Exists(o) =>
         /\ orders[o].status = CANCELLED =>
              /\ orders[o].driver_id = NULL
              /\ AcceptRows(o) = {}
              /\ \A d \in DriverIds : driver_status[d] = FREE
         /\ orders[o].status \in {IN_TRANSIT, COMPLETED} =>
              /\ orders[o].cancel_time = NULL
              /\ orders[o].cancel_reason = NULL
              /\ CancelRows(o) = {}
         /\ Cardinality(AcceptRows(o)) + Cardinality(CancelRows(o)) <= 1
    /\ (Returned("acceptOrder") /\ Succeeded(ret)) =>
         /\ orders[ret.order].status \in {IN_TRANSIT, COMPLETED}
         /\ orders[ret.order].driver_id = getDriverProfile(ret.user)
    /\ (Returned("cancelOrder") /\ Succeeded(ret)) => orders[ret.order].status = CANCELLED
    /\ (ret # NoRet /\ ret.op \in {"acceptOrder", "cancelOrder"} /\ "orders" \in ret.writes
          /\ ret.fault = NULL) => Succeeded(ret)
    /\ (\/ Returned("acceptOrder") /\ ret.msg = "accept_failed"
        \/ Returned("cancelOrder") /\ ret.msg = "operation_failed") =>
         /\ ret.writes = {}
         /\ orders[ret.order].status # PENDING

\* acceptOrder by a free driver lost the pending order to a cancelOrder.
AcceptLostToCancel ==
    /\ Returned("acceptOrder")
    /\ ret.msg = "accept_failed"
    /\ ret.st0 = PENDING
    /\ orders[ret.order].status = CANCELLED
    /\ CancelRows(ret.order) # {}

\* ---------------------------------------------------------------------- C21
\* The distance along the samples of ts from sample i on.
RECURSIVE PathLength(_, _)
PathLength(ts, i) ==
    IF i >= Len(ts) THEN 0
    ELSE calculateDistance(ts[i].pos, ts[i].lng, ts[i + 1].pos, ts[i + 1].lng)
           + PathLength(ts, i + 1)

\* ts holds the rows of rs, each once.
SameRows(ts, rs) ==
    /\ Len(ts) = Len(rs)
    /\ \E f \in [DOMAIN ts -> DOMAIN rs] :
         /\ \A i, j \in DOMAIN ts : f[i] = f[j] => i = j
         /\ \A i \in DOMAIN ts : ts[i] = rs[f[i]]

\* C21: getOrderTracks returns the samples of the order in timestamp order,
\* with total distance the sum of the distances between consecutive samples;
\* the total distance of a single sample is 0, and the average speed is 0
\* for a single sample and whenever the first and the last sample share
\* their timestamp; it is always a finite number.
TrackSummaryCorrect ==
    (Returned("getOrderTracks") /\ Succeeded(ret)) =>
        LET ts == ret.data.tracks
            n == Len(ts)
        IN  /\ SameRows(ts, tracks[ret.order])
            /\ \A i, j \in 1..n : i < j => ts[i].track_time <= ts[j].track_time
            /\ ret.data.trackCount = n
            /\ n > 0 =>
                 /\ ret.data.totalDistance = toFixed2(100 * PathLength(ts, 1))
                 /\ ret.data.averageSpeed.text >= 0
                 /\ ts[1].track_time = ts[n].track_time => ret.data.averageSpeed = toFixed2(0)
                 /\ ts[1].track_time < ts[n].track_time =>
                      ret.data.averageSpeed.text * (ts[n].track_time - ts[1].track_time)
                        = 100 * SecondsPerHour * PathLength(ts, 1)
            /\ n = 1 => ret.data.totalDistance = toFixed2(0)

\* The tracks of a trip whose samples lie apart but share their second.
TripWithinOneSecond ==
    /\ Returned("getOrderTracks")
    /\ Succeeded(ret)
    /\ Len(ret.data.tracks) >= 2
    /\ ret.data.tracks[1].track_time = ret.data.tracks[Len(ret.data.tracks)].track_time
    /\ ret.data.totalDistance # toFixed2(0)
    /\ ret.data.averageSpeed = toFixed2(0)

\* ---------------------------------------------------------------------- C23
LocationInv ==
    (Returned("updateDriverLocation") /\ Succeeded(ret)) =>
        /\ "driver_profiles" \in ret.writes
        /\ ret.driver \in DOMAIN current_pos
        /\ (ret.driver_status = BUSY /\ getOrders(ret.driver, IN_TRANSIT) # {}) =>
             /\ ret.msg = "track_recorded"
             /\ "transport_tracks" \in ret.writes
             /\ ret.order \in getOrders(ret.driver, IN_TRANSIT)
             /\ ret.distance = distanceToDestination(ret.pos, ret.lng, orders[ret.order])
             /\ \E i \in DOMAIN tracks[ret.order] :
                  /\ tracks[ret.order][i].driver_id = ret.driver
                  /\ tracks[ret.order][i].pos = ret.pos
                  /\ tracks[ret.order][i].lng = ret.lng
        /\ ret.driver_status = FREE =>
             /\ ret.msg = "no_track"
             /\ "transport_tracks" \notin ret.writes
             /\ ret.distance = NoDistance

LocationStep ==
    /\ \A c \in Calls :
         (/\ calls[c].op = "updateDriverLocation"
          /\ calls[c].pc = "location"
          /\ calls'[c] # calls[c]
          /\ ~(ret' # NoRet /\ ret'.status = 500)) =>
            /\ calls[c].driver \in DOMAIN current_pos'
            /\ current_pos'[calls[c].driver] = calls[c].pos
    /\ tracks' # tracks =>
         /\ ret' # NoRet
         /\ ret'.op = "updateDriverLocation"
         /\ ret'.msg = "track_recorded"
         /\ \E now \in Times :
              tracks' = [tracks EXCEPT ![ret'.order] =
                            Append(@, TrackRow(ret'.driver, ret'.pos, ret'.lng, now))]
    /\ (ret' # NoRet /\ ret'.op = "updateDriverLocation" /\ ret'.msg = "track_recorded") =>
         tracks' # tracks

\* C23: a successful updateDriverLocation has overwritten the driver's
\* position with the one sent; by a busy driver with an order in transit it
\* appends exactly one track, of that driver and position, to that order and
\* answers trackRecorded with the remaining distance; by a free driver it
\* appends none and answers trackRecorded false; no track is appended
\* otherwise.
LocationUpdateRecorded == []LocationInv /\ [][LocationStep]_vars

\* The busy driver's update recorded a track.
TrackRecorded ==
    /\ Returned("updateDriverLocation")
    /\ ret.msg = "track_recorded"
    /\ ret.driver_status = BUSY
    /\ tracks[ret.order] # <<>>

\* ---------------------------------------------------------------------- C24
InRange(lat, lng) ==
    /\ -MaxLatitude <= lat /\ lat <= MaxLatitude
    /\ -MaxLongitude <= lng /\ lng <= MaxLongitude

\* C24: a driver's location update is refused with the validation error,
\* nothing written, exactly when the coordinates lie outside
\* [-90, 90] x [-180, 180]; latitude 0 and longitude 0 are accepted.
CoordinatesInRangeAccepted ==
    (Returned("updateDriverLocation") /\ users[ret.user] = "driver") =>
        /\ (ret.status = 400) <=> ~InRange(ret.pos, ret.lng)
        /\ ret.status = 400 => ret.writes = {}

\* ---------------------------------------------------------------------- C29
\* No request is in progress.
Quiescent == ret = NoRet /\ \A c \in Calls : calls[c] = Idle

IdsOf(inbox) == {inbox[i].notification_id : i \in DOMAIN inbox}

RowOf(inbox, id) == inbox[CHOOSE i \in DOMAIN inbox : inbox[i].notification_id = id]

ReadStaysRead ==
    \A u \in UserIds :
        \A id \in IdsOf(notifications[u]) \cap IdsOf(notifications'[u]) :
            RowOf(notifications[u], id).is_read => RowOf(notifications'[u], id).is_read

\* A mark or delete request that names a notification of another user.
ByStranger(r) ==
    /\ r # NoRet
    /\ r.op \in {"markNotificationAsRead", "deleteNotification"}
    /\ r.notification[1] # r.user

StrangerChangesNothing ==
    ByStranger(ret') =>
        /\ notifications' = notifications
        /\ ret'.status = 404
        /\ ret'.writes = {}

\* C25: no step turns the read flag of a notification from read back to
\* unread, and the step that answers markNotificationAsRead or
\* deleteNotification called by a user other than the recipient leaves the
\* notifications as they were, the call having written nothing.
ReadFlagOneWay == [][ReadStaysRead /\ StrangerChangesNothing]_vars

\* A user other than the recipient was refused on a notification that the
\* recipient holds and has read.
StrangerRefusedOnReadRow ==
    /\ ByStranger(ret)
    /\ findNotification(notifications[ret.notification[1]], ret.notification)
    /\ RowOf(notifications[ret.notification[1]], ret.notification).is_read

\* ---------------------------------------------------------------------- C26
\* C26: markNotificationAsRead and deleteNotification answer success whenever
\* the caller's inbox held the notification when the call looked it up,
\* whatever its position in the inbox.
InboxManagementAnyPosition ==
    (/\ ret # NoRet
     /\ ret.op \in {"markNotificationAsRead", "deleteNotification"}
     /\ ret.had) => Succeeded(ret)

\* ---------------------------------------------------------------------- C27
RelatedToOrder(userId, orderId) ==
    Exists(orderId) /\ isUserRelatedToOrder(userId, getOrderById(orderId))

FirstChars(text) ==
    SubSeq(text, 1, IF Len(text) < PreviewLength THEN Len(text) ELSE PreviewLength)

\* C27: sendMessage with a text, and with no order id or the id of an order
\* that sender and receiver are both related to, answers success; the
\* message is stored with its order id and the newest notification of the
\* receiver is a new_message one that carries the first 30 characters of the
\* text.
SendMessagePersists ==
    (/\ ret # NoRet
     /\ ret.op = "sendMessage"
     /\ ret.content # <<>>
     /\ (\/ ret.order = NoOrderId
         \/ (RelatedToOrder(ret.user, ret.order) /\ RelatedToOrder(ret.receiver, ret.order)))) =>
        /\ Succeeded(ret)
        /\ \E i \in DOMAIN messages :
               messages[i] = MessageRow(ret.user, ret.receiver, ret.content, ret.order)
        /\ LET inbox == notifications[ret.receiver]
           IN  /\ inbox # <<>>
               /\ inbox[Len(inbox)].type = "new_message"
               /\ FirstChars(inbox[Len(inbox)].content) = FirstChars(ret.content)

====
